---------------------------- MODULE Spec2Model ----------------------------
(***************************************************************************)
(* A model of the inference and resolvent engine of chalk:                 *)
(*   - the UniverseMap and u_canonicalize   (solve/infer/ucanonicalize.rs) *)
(*   - the existential instantiator         (solve/infer/instantiate.rs)   *)
(*   - resolvent_clause, apply_answer_subst (solve/slg/.../resolvent.rs)   *)
(* Terms are records tagged by the field k; de Bruijn depths, universes    *)
(* and item ids are naturals.                                              *)
(***************************************************************************)
EXTENDS Integers, Sequences, FiniteSets, TLC

VARIABLES
  op,            \* the operation in progress and its position
  table,         \* InferenceTable: one entry per inference variable
  max_universe,  \* InferenceTable.max_universe
  value0,        \* u_canonicalize: the Canonical<T> being u-canonicalized
  universes,     \* UniverseMap.universes, the vector under construction
  todo,          \* u_canonicalize: skolems the collecting fold still visits
  adds,          \* u_canonicalize: the universes handed to add so far
  ucanonicalized, \* u_canonicalize: the UCanonicalized<T> returned
  args,          \* the arguments of the resolvent operation called
  locals,        \* the local values the operation has computed
  result,        \* "none", or how the operation returned: Ok, NoSolution, Panic
  ex_clause      \* the ExClause the operation builds and returns

uvars == <<value0, universes, todo, adds, ucanonicalized>>
tvars == <<table, max_universe>>
rvars == <<args, locals, result, ex_clause>>

(***************************************************************************)
(* Bounds of the model.                                                    *)
(***************************************************************************)
MaxUniverse == 3
\* The longest sequence of add calls made on one UniverseMap.
MaxAdds == 3

Universes == 0..MaxUniverse

(***************************************************************************)
(* The term language (ir): types, lifetimes, consts, goals.                *)
(***************************************************************************)
ItemId(i) == <<"ItemId", i>>
TypeNameForAll(ui) == <<"ForAll", ui>>

TyVar(depth) == [k |-> "TyVar", depth |-> depth]
Apply(name, parameters) == [k |-> "Apply", name |-> name, parameters |-> parameters]
Projection(id, parameters) ==
  [k |-> "Projection", associated_ty_id |-> id, parameters |-> parameters]
ForAllTy(n, ty) == [k |-> "ForAll", num_binders |-> n, ty |-> ty]
SkolemTy(ui) == Apply(TypeNameForAll(ui), <<>>)

LifetimeVar(depth) == [k |-> "LifetimeVar", depth |-> depth]
LifetimeForAll(ui) == [k |-> "LifetimeForAll", ui |-> ui]

ConstVar(depth) == [k |-> "ConstVar", depth |-> depth]

Implemented(trait_id, parameters) ==
  [k |-> "Implemented", trait_id |-> trait_id, parameters |-> parameters]
ProjectionEq(projection, ty) == [k |-> "ProjectionEq", projection |-> projection, ty |-> ty]
Not(goal) == [k |-> "Not", goal |-> goal]
Quantified(kind, binders, value) ==
  [k |-> "Quantified", kind |-> kind, binders |-> binders, value |-> value]

LifetimeEq(a, b) == [k |-> "LifetimeEq", a |-> a, b |-> b]
ProgramClauseImplication(consequence, conditions) ==
  [k |-> "Implication", consequence |-> consequence, conditions |-> conditions]
ConstrainedSubst(parameters, constraints) ==
  [k |-> "ConstrainedSubst", subst |-> parameters, constraints |-> constraints]
Binders(binders, value) == [binders |-> binders, value |-> value]
InEnvironment(environment, goal) == [environment |-> environment, goal |-> goal]

\* The kind of a parameter: ParameterKind::{Ty, Lifetime, Const}.
KindOf(p) ==
  CASE p.k \in {"TyVar", "Apply", "Projection", "ForAll"} -> "Ty"
    [] p.k \in {"LifetimeVar", "LifetimeForAll"} -> "Lifetime"
    [] p.k = "ConstVar" -> "Const"
    [] OTHER -> "Goal"

\* A binder of a Canonical: ParameterKind<UniverseIndex>.
PK(kind, ui) == [kind |-> kind, ui |-> ui]

IsVar(t) == t.k \in {"TyVar", "LifetimeVar", "ConstVar"}

\* A variable of kind `kind` at depth `depth`.
VarOfKind(kind, depth) ==
  CASE kind = "Ty" -> TyVar(depth)
    [] kind = "Lifetime" -> LifetimeVar(depth)
    [] kind = "Const" -> ConstVar(depth)

Max(a, b) == IF a >= b THEN a ELSE b

SeqToSet(s) == {s[i] : i \in 1..Len(s)}

RECURSIVE Concat(_)
Concat(ss) == IF ss = <<>> THEN <<>> ELSE Head(ss) \o Concat(Tail(ss))

(***************************************************************************)
(* UniverseMap (ucanonicalize.rs).  Indices are zero-based as in the       *)
(* source; the vector `universes` is a TLA+ sequence, so the element at    *)
(* index i is universes[i + 1].                                            *)
(***************************************************************************)

\* slice::binary_search: the halving loop of the standard library, run on
\* whatever the vector holds.  Ok(i) is [ok |-> TRUE, index |-> i].
RECURSIVE BinarySearchLoop(_, _, _, _)
BinarySearchLoop(v, x, base, size) ==
  IF size > 1
    THEN LET half == size \div 2
             mid == base + half
         IN BinarySearchLoop(v, x, IF v[mid + 1] > x THEN base ELSE mid, size - half)
    ELSE IF v[base + 1] = x
           THEN [ok |-> TRUE, index |-> base]
           ELSE [ok |-> FALSE, index |-> base + (IF v[base + 1] < x THEN 1 ELSE 0)]

BinarySearch(v, x) ==
  IF Len(v) = 0 THEN [ok |-> FALSE, index |-> 0] ELSE BinarySearchLoop(v, x, 0, Len(v))

\* Vec::insert(i, x)
Insert(v, i, x) == SubSeq(v, 1, i) \o <<x>> \o SubSeq(v, i + 1, Len(v))

UniverseMapNew == <<0>>

\* add, if it pushed the universe at the end instead of inserting it in order.
UniverseMapAddAppends(v, universe) ==
  LET r == BinarySearch(v, universe)
  IN IF ~r.ok THEN Append(v, universe) ELSE v

\* UniverseMap::add
UniverseMapAdd(v, universe) ==
  LET r == BinarySearch(v, universe)
  IN IF ~r.ok THEN Insert(v, r.index, universe) ELSE v

num_canonical_universes(v) == Len(v)

\* map_universe_to_canonical, if the insertion index itself were returned.
MapUniverseToCanonicalNoStepBack(v, universe) == BinarySearch(v, universe).index

\* The result is a universe, or -1 for the panic of assert!(index > 0).
map_universe_to_canonical(v, universe) ==
  LET r == BinarySearch(v, universe)
  IN IF r.ok THEN r.index
     ELSE IF r.index > 0 THEN r.index - 1 ELSE 0 - 1

\* map_universe_from_canonical, if an in-range canonical universe were returned as it is.
MapUniverseFromCanonicalIdentity(v, universe) ==
  IF universe < Len(v) THEN universe ELSE v[Len(v)] + (universe - Len(v)) + 1

\* map_universe_from_canonical, if the out-of-range case left out the + 1.
MapUniverseFromCanonicalNoGap(v, universe) ==
  IF universe < Len(v) THEN v[universe + 1] ELSE v[Len(v)] + (universe - Len(v))

\* UniverseMap::map_universe_from_canonical
map_universe_from_canonical(v, universe) ==
  IF universe < Len(v)
    THEN v[universe + 1]
    ELSE LET difference == universe - Len(v)
             max_counter == v[Len(v)]
         IN max_counter + difference + 1


(***************************************************************************)
(* The folder framework (fold): a folder is a record tagged by f.  Fold    *)
(* walks a term keeping the number of binders entered; a variable at       *)
(* depth >= binders is free and goes to the existential callback with its  *)
(* free depth (depth - binders); a skolem goes to the universal callback.  *)
(***************************************************************************)
Shifter(adjustment) == [f |-> "Shifter", adjustment |-> adjustment]
Instantiator(vars) == [f |-> "Instantiator", vars |-> vars]
UMapToCanonical(v) == [f |-> "UMapToCanonical", universes |-> v]
UMapFromCanonical(v) == [f |-> "UMapFromCanonical", universes |-> v]
DeepNormalizer(tbl) == [f |-> "DeepNormalizer", table |-> tbl]
Skolemizer(uis) == [f |-> "Skolemizer", universes |-> uis]
Subst(parameters) == [f |-> "Subst", parameters |-> parameters]
Canonicalizer(free_vars) == [f |-> "Canonicalizer", free_vars |-> free_vars]

None == [k |-> "None"]

\* probe_{ty,lifetime,const}_var: the current instantiation of a variable.
probe_var(tbl, var) == IF var < Len(tbl) THEN tbl[var + 1].value ELSE None

RECURSIVE Fold(_, _, _)
RECURSIVE FoldFreeExistential(_, _, _, _)

\* Instantiator::fold_free_existential_*, if the variable were not
\* up-shifted by the binders entered.
InstantiatorFoldFreeExistentialNoShift(vars, kind, depth, binders) ==
  IF depth < Len(vars)
    THEN vars[depth + 1]
    ELSE VarOfKind(kind, depth + binders - Len(vars))

\* Instantiator::fold_free_existential_*, if a variable beyond vars were
\* lowered by vars.len() without the binders entered.
InstantiatorFoldFreeExistentialNoBinders(vars, kind, depth, binders) ==
  IF depth < Len(vars)
    THEN Fold(Shifter(binders), vars[depth + 1], 0)
    ELSE VarOfKind(kind, depth - Len(vars))

\* Instantiator::fold_free_existential_{ty,lifetime,const}
InstantiatorFoldFreeExistential(vars, kind, depth, binders) ==
  IF depth < Len(vars)
    THEN Fold(Shifter(binders), vars[depth + 1], 0)
    ELSE VarOfKind(kind, depth + binders - Len(vars))

\* DeepNormalizer::fold_free_existential_*, if the value found were not
\* itself folded.
DeepNormalizerFoldFreeExistentialShallow(folder, kind, depth, binders) ==
  LET value == probe_var(folder.table, depth)
  IN IF value # None
       THEN Fold(Shifter(binders), value, 0)
       ELSE VarOfKind(kind, depth + binders)

\* DeepNormalizer::fold_free_existential_{ty,lifetime,const}
DeepNormalizerFoldFreeExistential(folder, kind, depth, binders) ==
  LET value == probe_var(folder.table, depth)
  IN IF value # None
       THEN Fold(Shifter(binders), Fold(folder, value, 0), 0)
       ELSE VarOfKind(kind, depth + binders)

\* Subst::fold_free_existential_{ty,lifetime,const}: a variable of the
\* substituted binders becomes its parameter, shifted into the binders
\* entered; any other loses the binders the substitution removed.
SubstFoldFreeExistential(parameters, kind, depth, binders) ==
  IF depth < Len(parameters)
    THEN Fold(Shifter(binders), parameters[depth + 1], 0)
    ELSE VarOfKind(kind, depth - Len(parameters) + binders)

\* Canonicalizer::fold_free_existential_{ty,lifetime,const}: a free variable
\* becomes the canonical index it was given at its first occurrence.
CanonicalizerFoldFreeExistential(free_vars, kind, depth, binders) ==
  VarOfKind(kind, (CHOOSE i \in 1..Len(free_vars) : free_vars[i].depth = depth) - 1 + binders)

FoldFreeExistential(folder, kind, depth, binders) ==
  CASE folder.f = "Shifter" -> VarOfKind(kind, depth + folder.adjustment + binders)
    [] folder.f = "Instantiator" ->
         InstantiatorFoldFreeExistential(folder.vars, kind, depth, binders)
    [] folder.f = "DeepNormalizer" ->
         DeepNormalizerFoldFreeExistential(folder, kind, depth, binders)
    [] folder.f = "Subst" ->
         SubstFoldFreeExistential(folder.parameters, kind, depth, binders)
    [] folder.f = "Canonicalizer" ->
         CanonicalizerFoldFreeExistential(folder.free_vars, kind, depth, binders)
    [] folder.f = "Skolemizer" ->
         IF depth < Len(folder.universes)
           THEN IF kind = "Ty" THEN SkolemTy(folder.universes[depth + 1])
                ELSE LifetimeForAll(folder.universes[depth + 1])
           ELSE VarOfKind(kind, depth + binders - Len(folder.universes))
    [] OTHER -> VarOfKind(kind, depth + binders)  \* IdentityExistentialFolder

\* UMapToCanonical::fold_free_universal_*, if a skolem kept the universe it
\* had before the remapping.
UMapToCanonicalFoldFreeUniversalKeeps(v, kind, universe0) ==
  IF kind = "Ty" THEN SkolemTy(universe0) ELSE LifetimeForAll(universe0)

\* UMapToCanonical::fold_free_universal_{ty,lifetime}
UMapToCanonicalFoldFreeUniversal(v, kind, universe0) ==
  LET universe == map_universe_to_canonical(v, universe0)
  IN IF kind = "Ty" THEN SkolemTy(universe) ELSE LifetimeForAll(universe)

\* UMapFromCanonical::fold_free_universal_{ty,lifetime}
UMapFromCanonicalFoldFreeUniversal(v, kind, universe0) ==
  LET universe == map_universe_from_canonical(v, universe0)
  IN IF kind = "Ty" THEN SkolemTy(universe) ELSE LifetimeForAll(universe)

FoldFreeUniversal(folder, kind, ui, binders) ==
  CASE folder.f = "UMapToCanonical" ->
         UMapToCanonicalFoldFreeUniversal(folder.universes, kind, ui)
    [] folder.f = "UMapFromCanonical" ->
         UMapFromCanonicalFoldFreeUniversal(folder.universes, kind, ui)
    [] OTHER ->  \* IdentityUniversalFolder
         IF kind = "Ty" THEN SkolemTy(ui) ELSE LifetimeForAll(ui)

Fold(folder, t, binders) ==
  LET Each(s, b) == [i \in 1..Len(s) |-> Fold(folder, s[i], b)]
  IN CASE IsVar(t) ->
            IF t.depth >= binders
              THEN FoldFreeExistential(folder, KindOf(t), t.depth - binders, binders)
              ELSE t
       [] t.k = "Apply" ->
            IF t.name[1] = "ForAll"
              THEN FoldFreeUniversal(folder, "Ty", t.name[2], binders)
              ELSE Apply(t.name, Each(t.parameters, binders))
       [] t.k = "Projection" ->
            Projection(t.associated_ty_id, Each(t.parameters, binders))
       [] t.k = "ForAll" ->
            ForAllTy(t.num_binders, Fold(folder, t.ty, binders + t.num_binders))
       [] t.k = "LifetimeForAll" -> FoldFreeUniversal(folder, "Lifetime", t.ui, binders)
       [] t.k = "Implemented" -> Implemented(t.trait_id, Each(t.parameters, binders))
       [] t.k = "ProjectionEq" ->
            ProjectionEq(Fold(folder, t.projection, binders), Fold(folder, t.ty, binders))
       [] t.k = "Not" -> Not(Fold(folder, t.goal, binders))
       [] t.k = "Quantified" ->
            Quantified(t.kind, t.binders, Fold(folder, t.value, binders + Len(t.binders)))
       [] t.k = "LifetimeEq" ->
            LifetimeEq(Fold(folder, t.a, binders), Fold(folder, t.b, binders))
       [] t.k = "Implication" ->
            ProgramClauseImplication(Fold(folder, t.consequence, binders),
                                     Each(t.conditions, binders))
       [] t.k = "ConstrainedSubst" ->
            ConstrainedSubst(Each(t.subst, binders),
                             [i \in 1..Len(t.constraints) |->
                                [environment |-> t.constraints[i].environment,
                                 goal |-> Fold(folder, t.constraints[i].goal, binders)]])

\* The free depths (depth - binders) of the free variables of a term.
RECURSIVE FreeDepths(_, _)
FreeDepths(t, binders) ==
  LET Each(s, b) == UNION {FreeDepths(s[i], b) : i \in 1..Len(s)}
  IN CASE IsVar(t) -> IF t.depth >= binders THEN {t.depth - binders} ELSE {}
       [] t.k \in {"Apply", "Projection", "Implemented"} -> Each(t.parameters, binders)
       [] t.k = "ForAll" -> FreeDepths(t.ty, binders + t.num_binders)
       [] t.k = "LifetimeForAll" -> {}
       [] t.k = "ProjectionEq" ->
            FreeDepths(t.projection, binders) \cup FreeDepths(t.ty, binders)
       [] t.k = "Not" -> FreeDepths(t.goal, binders)
       [] t.k = "Quantified" -> FreeDepths(t.value, binders + Len(t.binders))
       [] t.k = "LifetimeEq" -> FreeDepths(t.a, binders) \cup FreeDepths(t.b, binders)
       [] t.k = "Implication" ->
            FreeDepths(t.consequence, binders) \cup Each(t.conditions, binders)
       [] t.k = "ConstrainedSubst" ->
            Each(t.subst, binders)
              \cup UNION {FreeDepths(t.constraints[i].goal, binders) :
                            i \in 1..Len(t.constraints)}

\* The skolems ForAll(U) of a term in the order a fold meets them.
RECURSIVE Skolems(_)
Skolems(t) ==
  LET Each(s) == Concat([i \in 1..Len(s) |-> Skolems(s[i])])
  IN CASE IsVar(t) -> <<>>
       [] t.k = "Apply" ->
            IF t.name[1] = "ForAll" THEN <<PK("Ty", t.name[2])>> ELSE Each(t.parameters)
       [] t.k \in {"Projection", "Implemented"} -> Each(t.parameters)
       [] t.k = "ForAll" -> Skolems(t.ty)
       [] t.k = "LifetimeForAll" -> <<PK("Lifetime", t.ui)>>
       [] t.k = "ProjectionEq" -> Skolems(t.projection) \o Skolems(t.ty)
       [] t.k = "Not" -> Skolems(t.goal)
       [] t.k = "Quantified" -> Skolems(t.value)
       [] t.k = "LifetimeEq" -> Skolems(t.a) \o Skolems(t.b)
       [] t.k = "Implication" -> Skolems(t.consequence) \o Each(t.conditions)
       [] t.k = "ConstrainedSubst" ->
            Each(t.subst) \o Concat([i \in 1..Len(t.constraints) |->
                                       Skolems(t.constraints[i].goal)])

Err == [k |-> "Err"]

up_shift(t, n) == Fold(Shifter(n), t, 0)

\* down_shift fails when a free variable has depth below n.
down_shift(t, n) ==
  IF \A d \in FreeDepths(t, 0) : d >= n THEN Fold(Shifter(0 - n), t, 0) ELSE Err


(***************************************************************************)
(* The inference table.  Variable number i (its depth when free) is entry  *)
(* table[i + 1] = [ui |-> its universe, value |-> its instantiation or     *)
(* None].  An operation works on a record st that carries the table, the   *)
(* max_universe and what unification has produced so far.                  *)
(***************************************************************************)
normalize_deep(tbl, value) == Fold(DeepNormalizer(tbl), value, 0)

\* normalize_shallow / normalize_lifetime / normalize_const: the
\* instantiation of a free variable, shifted by binders, or None.
normalize_shallow(tbl, t, binders) ==
  IF IsVar(t) /\ t.depth >= binders /\ probe_var(tbl, t.depth - binders) # None
    THEN up_shift(probe_var(tbl, t.depth - binders), binders)
    ELSE None

\* new_variable(ui): a fresh unbound variable; max_universe covers ui.
new_variable(st, ui) ==
  [st EXCEPT !.table = Append(st.table, [ui |-> ui, value |-> None]),
             !.max_universe = Max(st.max_universe, ui)]

\* new_universe(): a universe above all earlier ones.
new_universe(st) == [st EXCEPT !.max_universe = st.max_universe + 1]

Fail(st, status) == [st EXCEPT !.status = status]

\* A variable followed through its instantiations.
RECURSIVE Resolve(_, _)
Resolve(tbl, t) ==
  IF IsVar(t) /\ probe_var(tbl, t.depth) # None
    THEN Resolve(tbl, probe_var(tbl, t.depth))
    ELSE t

\* Universe-checked instantiation of variable var with term t: no skolem of t
\* may lie above the variable's universe, the variable may not occur in t,
\* and the free variables of t are brought into the variable's universe.
InstantiateVar(st, var, t) ==
  LET ui == st.table[var + 1].ui
      nt == normalize_deep(st.table, t)
      free == FreeDepths(nt, 0)
      sk == Skolems(nt)
  IN IF var \in free \/ \E i \in 1..Len(sk) : sk[i].ui > ui
       THEN Fail(st, "NoSolution")
       ELSE [st EXCEPT !.table =
               [i \in 1..Len(st.table) |->
                  IF i = var + 1 THEN [ui |-> ui, value |-> t]
                  ELSE IF (i - 1) \in free /\ st.table[i].ui > ui
                    THEN [st.table[i] EXCEPT !.ui = ui]
                    ELSE st.table[i]]]

PushGoal(st, env, goal) == [st EXCEPT !.goals = Append(st.goals, InEnvironment(env, goal))]
PushConstraint(st, env, c) ==
  [st EXCEPT !.constraints = Append(st.constraints, InEnvironment(env, c))]

\* unify(environment, a, b): st.status tells Ok, NoSolution or Panic; the
\* goals and constraints produced are appended to st.goals, st.constraints.
RECURSIVE UnifyTerm(_, _, _, _)
RECURSIVE UnifyEach(_, _, _, _, _)

UnifyEach(st, env, as, bs, i) ==
  IF st.status # "Ok" \/ i > Len(as) THEN st
  ELSE UnifyEach(UnifyTerm(st, env, as[i], bs[i]), env, as, bs, i + 1)

UnifyTerm(st, env, a0, b0) ==
  LET a == Resolve(st.table, a0)
      b == Resolve(st.table, b0)
  IN CASE a.k = "Implemented" \/ b.k = "Implemented" ->
            IF a.k = b.k /\ a.trait_id = b.trait_id /\ Len(a.parameters) = Len(b.parameters)
              THEN UnifyEach(st, env, a.parameters, b.parameters, 1)
              ELSE Fail(st, "NoSolution")
       [] KindOf(a) # KindOf(b) -> Fail(st, "Panic")
       [] KindOf(a) = "Ty" ->
            CASE a.k = "Projection" /\ b.k # "Projection" -> PushGoal(st, env, ProjectionEq(a, b))
              [] b.k = "Projection" /\ a.k # "Projection" -> PushGoal(st, env, ProjectionEq(b, a))
              [] a.k = "TyVar" -> IF a = b THEN st ELSE InstantiateVar(st, a.depth, b)
              [] b.k = "TyVar" -> InstantiateVar(st, b.depth, a)
              [] a.k = "Apply" /\ b.k = "Apply" ->
                   IF a.name = b.name /\ Len(a.parameters) = Len(b.parameters)
                     THEN UnifyEach(st, env, a.parameters, b.parameters, 1)
                     ELSE Fail(st, "NoSolution")
              [] a.k = "Projection" /\ b.k = "Projection" ->
                   IF a.associated_ty_id = b.associated_ty_id
                        /\ Len(a.parameters) = Len(b.parameters)
                     THEN UnifyEach(st, env, a.parameters, b.parameters, 1)
                     ELSE Fail(st, "NoSolution")
              [] a.k = "ForAll" /\ b.k = "ForAll" ->
                   IF a.num_binders = b.num_binders
                     THEN LET uis == [i \in 1..a.num_binders |-> st.max_universe + i]
                              st1 == [st EXCEPT !.max_universe = st.max_universe + a.num_binders]
                          IN UnifyTerm(st1, env, Fold(Skolemizer(uis), a.ty, 0),
                                       Fold(Skolemizer(uis), b.ty, 0))
                     ELSE Fail(st, "NoSolution")
              [] OTHER -> Fail(st, "NoSolution")
       [] KindOf(a) = "Lifetime" ->
            CASE a = b -> st
              [] a.k = "LifetimeVar" /\ b.k = "LifetimeVar" -> InstantiateVar(st, a.depth, b)
              [] OTHER -> PushConstraint(st, env, LifetimeEq(a, b))
       [] KindOf(a) = "Const" ->
            IF a = b THEN st ELSE InstantiateVar(st, a.depth, b)

\* The state an operation starts unification from.
UnifyState(tbl, mu) ==
  [status |-> "Ok", table |-> tbl, max_universe |-> mu, goals |-> <<>>, constraints |-> <<>>]

unify(tbl, mu, env, a, b) == UnifyTerm(UnifyState(tbl, mu), env, a, b)

(***************************************************************************)
(* u_canonicalize (ucanonicalize.rs): the collecting fold, one skolem at a *)
(* time, then the remapping fold and the binders.                          *)
(***************************************************************************)

\* The collector, if only type skolems added their universe.
UCollectorVisitTyOnly(v, skolem) ==
  IF skolem.kind = "Ty" THEN UniverseMapAdd(v, skolem.ui) ELSE v

\* UCollector::fold_free_universal_{ty,lifetime}: both add the universe.
UCollectorVisit(v, skolem) == UniverseMapAdd(v, skolem.ui)

\* The second half of u_canonicalize, if the binders kept their universes.
UCanonicalizedOfKeepsBinders(c, v) ==
  [quantified |->
     [universes |-> num_canonical_universes(v),
      canonical |->
        [value |-> Fold(UMapToCanonical(v), c.value, 0),
         binders |-> c.binders]],
   universes |-> v]

\* The second half of u_canonicalize, from the collected map.
UCanonicalizedOf(c, v) ==
  [quantified |->
     [universes |-> num_canonical_universes(v),
      canonical |->
        [value |-> Fold(UMapToCanonical(v), c.value, 0),
         binders |-> [i \in 1..Len(c.binders) |->
                        PK(c.binders[i].kind,
                           map_universe_to_canonical(v, c.binders[i].ui))]]],
   universes |-> v]

\* The collecting fold as a whole: the collector on each skolem in turn.
RECURSIVE UCollected(_, _)
UCollected(v, skolems) ==
  IF skolems = <<>> THEN v
  ELSE UCollected(UCollectorVisit(v, Head(skolems)), Tail(skolems))

\* u_canonicalize(value0), both passes.
u_canonicalize(c) == UCanonicalizedOf(c, UCollected(UniverseMapNew, Skolems(c.value)))

\* UniverseMap::map_from_canonical(value)
map_from_canonical(v, value) == Fold(UMapFromCanonical(v), value, 0)

\* Payload parameters with skolems of every universe of the model.
UParams ==
  UNION {{SkolemTy(u), LifetimeForAll(u), Apply(ItemId(1), <<SkolemTy(u)>>)} :
           u \in Universes}
    \cup {TyVar(0)}

CanonicalInputs ==
  {c \in [binders : {<<>>} \cup {<<PK("Ty", u)>> : u \in Universes},
          value : {Implemented(1, <<p, q>>) : p, q \in UParams}
                    \cup {Implemented(2, <<p, q, r>>) : p, q, r \in UParams}] :
     FreeDepths(c.value, 0) = 0..(Len(c.binders) - 1)}

InitUniverse ==
  /\ op = "idle"
  /\ table = <<>>
  /\ max_universe = 0
  /\ value0 = None
  /\ universes = <<>>
  /\ todo = <<>>
  /\ adds = <<>>
  /\ ucanonicalized = None
  /\ args = None
  /\ locals = None
  /\ result = "none"
  /\ ex_clause = None

\* u_canonicalize, lines 8-12: UniverseMap::new() and the start of the fold.
UCanonicalize(c) ==
  /\ op = "idle"
  /\ op' = "u_collect"
  /\ value0' = c
  /\ universes' = UniverseMapNew
  /\ todo' = Skolems(c.value)
  /\ adds' = <<>>
  /\ UNCHANGED <<tvars, rvars, ucanonicalized>>

\* One call of the collector on the next skolem of the payload.
UCollect ==
  /\ op = "u_collect"
  /\ todo # <<>>
  /\ universes' = UCollectorVisit(universes, Head(todo))
  /\ adds' = Append(adds, Head(todo).ui)
  /\ todo' = Tail(todo)
  /\ UNCHANGED <<op, tvars, rvars, value0, ucanonicalized>>

\* u_canonicalize, lines 23-50: the remapping pass and the result.
URemap ==
  /\ op = "u_collect"
  /\ todo = <<>>
  /\ op' = "u_done"
  /\ ucanonicalized' = UCanonicalizedOf(value0, universes)
  /\ UNCHANGED <<tvars, rvars, value0, universes, todo, adds>>

NextUniverse ==
  \/ \E c \in CanonicalInputs : UCanonicalize(c)
  \/ UCollect
  \/ URemap

vars ==
  <<op, table, max_universe, value0, universes, todo, adds, ucanonicalized,
    args, locals, result, ex_clause>>

SpecUniverse == InitUniverse /\ [][NextUniverse]_vars


(***************************************************************************)
(* Claims about the UniverseMap and u_canonicalize.                        *)
(***************************************************************************)
StrictlyIncreasing(v) == \A i, j \in 1..Len(v) : i < j => v[i] < v[j]

\* C9: after UniverseMap::new and any sequence of add calls the vector is
\* strictly increasing and starts with the root universe U0, and adding a
\* universe that is already present leaves the vector unchanged.
C9_UniverseMapSortedRooted ==
  [][/\ op' \in {"u_collect", "u_done"} =>
          /\ Len(universes') >= 1
          /\ universes'[1] = 0
          /\ StrictlyIncreasing(universes')
     /\ (op = "u_collect" /\ todo # <<>> /\ Head(todo).ui \in SeqToSet(universes)) =>
          universes' = universes]_vars

\* C9 witness: a universe was added below an earlier one and then added again.
C9_Witness ==
  /\ op = "u_done"
  /\ Len(adds) = 3
  /\ adds[2] < adds[1]
  /\ adds[3] = adds[2]
  /\ Len(universes) = 3

\* Whether the skolem ForAll(u), type or lifetime, occurs in a term.
RECURSIVE OccursSkolem(_, _)
OccursSkolem(t, u) ==
  CASE t.k = "Apply" ->
         \/ t.name = TypeNameForAll(u)
         \/ \E i \in 1..Len(t.parameters) : OccursSkolem(t.parameters[i], u)
    [] t.k \in {"Projection", "Implemented"} ->
         \E i \in 1..Len(t.parameters) : OccursSkolem(t.parameters[i], u)
    [] t.k = "LifetimeForAll" -> t.ui = u
    [] t.k = "ForAll" -> OccursSkolem(t.ty, u)
    [] t.k = "Not" -> OccursSkolem(t.goal, u)
    [] t.k = "Quantified" -> OccursSkolem(t.value, u)
    [] OTHER -> FALSE

\* C10: the UniverseMap u_canonicalize returns holds exactly U0 and the
\* universes of the type and lifetime skolems of the input payload; a binder's
\* universe is in it only if a skolem of the payload has it.
C10_MapIsPayloadUniverses ==
  op = "u_done" =>
    \A u \in 0..(MaxUniverse + 1) :
      u \in SeqToSet(ucanonicalized.universes) <=> (u = 0 \/ OccursSkolem(value0.value, u))

\* C10 witness: a lifetime skolem's universe is collected and the binder's
\* universe, absent from the payload, is not.
C10_Witness ==
  /\ op = "u_done"
  /\ Len(value0.binders) = 1
  /\ value0.binders[1].ui \notin SeqToSet(ucanonicalized.universes)
  /\ \E i \in 1..Len(value0.value.parameters) :
       /\ value0.value.parameters[i].k = "LifetimeForAll"
       /\ value0.value.parameters[i].ui > 0
       /\ \A j \in 1..Len(value0.value.parameters) :
            j # i => ~OccursSkolem(value0.value.parameters[j], value0.value.parameters[i].ui)


(***************************************************************************)
(* Existential instantiation (instantiate.rs).                             *)
(***************************************************************************)

\* parameter_kind_to_parameter, if the variable were made in the table's
\* max_universe whatever the binder says.
ParameterKindToParameterInMaxUniverse(st, param_kind) ==
  [st |-> new_variable(st, st.max_universe),
   parameter |-> VarOfKind(param_kind.kind, Len(st.table))]

\* parameter_kind_to_parameter: a fresh variable of the binder's kind.
parameter_kind_to_parameter(st, param_kind) ==
  [st |-> new_variable(st, param_kind.ui),
   parameter |-> VarOfKind(param_kind.kind, Len(st.table))]

\* The map over the binders of `instantiate`, in binder order.
RECURSIVE InstantiateVars(_, _, _, _)
InstantiateVars(st, binder_universes, i, vs) ==
  IF i > Len(binder_universes) THEN [st |-> st, vars |-> vs]
  ELSE LET r == parameter_kind_to_parameter(st, binder_universes[i])
       IN InstantiateVars(r.st, binder_universes, i + 1, Append(vs, r.parameter))

instantiate(st, binder_universes, arg) ==
  LET r == InstantiateVars(st, binder_universes, 1, <<>>)
  IN [st |-> r.st, vars |-> r.vars, value |-> Fold(Instantiator(r.vars), arg, 0)]

instantiate_canonical(st, bound) == instantiate(st, bound.binders, bound.value)

instantiate_in(st, universe, binders, arg) ==
  instantiate(st, [i \in 1..Len(binders) |-> PK(binders[i], universe)], arg)

instantiate_binders_existentially(st, arg) ==
  LET max_universe_ == st.max_universe
  IN instantiate_in(st, max_universe_, arg.binders, arg.value)

\* fresh_subst, lines 47-53: one new variable per binder, as a parameter.
RECURSIVE FreshSubstParameters(_, _, _, _)
FreshSubstParameters(st, binders, i, parameters) ==
  IF i > Len(binders) THEN [st |-> st, parameters |-> parameters]
  ELSE FreshSubstParameters(new_variable(st, binders[i].ui), binders, i + 1,
                            Append(parameters, VarOfKind(binders[i].kind, Len(st.table))))

\* fresh_subst, if every variable were made in the table's max_universe.
FreshSubstInMaxUniverse(st, binders) ==
  FreshSubstParameters(st, [i \in 1..Len(binders) |-> PK(binders[i].kind, st.max_universe)],
                       1, <<>>)

\* fresh_subst(binders)
fresh_subst(st, binders) == FreshSubstParameters(st, binders, 1, <<>>)

\* Substitution::apply / Subst::apply(parameters, value)
SubstApply(parameters, value) == Fold(Subst(parameters), value, 0)

\* The closure of instantiate_binders_universally, lines 108-121, if the
\* skolem were of the universe the table had before the call of new_universe.
UniversalParameterOldUniverse(st, pk) ==
  IF pk = "Lifetime" THEN LifetimeForAll(st.max_universe)
  ELSE IF pk = "Ty" THEN SkolemTy(st.max_universe)
  ELSE None

\* The closure of instantiate_binders_universally, lines 108-121, after its
\* call of new_universe: the skolem of the binder's kind; None stands for
\* the unimplemented!() of a const binder.
UniversalParameter(st, pk) ==
  IF pk = "Lifetime" THEN LifetimeForAll(new_universe(st).max_universe)
  ELSE IF pk = "Ty" THEN SkolemTy(new_universe(st).max_universe)
  ELSE None

\* The map over the binders of instantiate_binders_universally, in order.
RECURSIVE UniversalParameters(_, _, _, _)
UniversalParameters(st, binders, i, parameters) ==
  IF i > Len(binders) THEN [st |-> st, parameters |-> parameters, panic |-> FALSE]
  ELSE IF UniversalParameter(st, binders[i]) = None
    THEN [st |-> new_universe(st), parameters |-> parameters, panic |-> TRUE]
  ELSE UniversalParameters(new_universe(st), binders, i + 1,
                           Append(parameters, UniversalParameter(st, binders[i])))

\* instantiate_binders_universally(arg)
instantiate_binders_universally(st, arg) ==
  LET r == UniversalParameters(st, arg.binders, 1, <<>>)
  IN [st |-> r.st, parameters |-> r.parameters, panic |-> r.panic,
      value |-> IF r.panic THEN None ELSE SubstApply(r.parameters, arg.value)]

\* The free variables of a term in the order a fold meets them, each as the
\* variable it is outside the binders entered.
RECURSIVE FreeVarsInOrder(_, _)
FreeVarsInOrder(t, binders) ==
  LET Each(s, b) == Concat([i \in 1..Len(s) |-> FreeVarsInOrder(s[i], b)])
  IN CASE IsVar(t) ->
            IF t.depth >= binders THEN <<VarOfKind(KindOf(t), t.depth - binders)>> ELSE <<>>
       [] t.k \in {"Apply", "Projection", "Implemented"} -> Each(t.parameters, binders)
       [] t.k = "ForAll" -> FreeVarsInOrder(t.ty, binders + t.num_binders)
       [] t.k = "ProjectionEq" ->
            FreeVarsInOrder(t.projection, binders) \o FreeVarsInOrder(t.ty, binders)
       [] t.k = "Not" -> FreeVarsInOrder(t.goal, binders)
       [] t.k = "Quantified" -> FreeVarsInOrder(t.value, binders + Len(t.binders))
       [] t.k = "LifetimeEq" ->
            FreeVarsInOrder(t.a, binders) \o FreeVarsInOrder(t.b, binders)
       [] t.k = "Implication" ->
            FreeVarsInOrder(t.consequence, binders) \o Each(t.conditions, binders)
       [] OTHER -> <<>>

\* A sequence without the later occurrences of its elements.
RECURSIVE FirstOccurrences(_, _)
FirstOccurrences(s, seen) ==
  IF s = <<>> THEN seen
  ELSE IF \E i \in 1..Len(seen) : seen[i] = Head(s)
    THEN FirstOccurrences(Tail(s), seen)
  ELSE FirstOccurrences(Tail(s), Append(seen, Head(s)))

\* canonicalize(value): the distinct free variables in first-occurrence
\* order become the binders, each with its kind and its universe in the
\* table, and the canonical indices ?0, ?1, ... of the payload.
canonicalize(tbl, value) ==
  LET free_vars == FirstOccurrences(FreeVarsInOrder(value, 0), <<>>)
  IN Binders([i \in 1..Len(free_vars) |->
                PK(KindOf(free_vars[i]), tbl[free_vars[i].depth + 1].ui)],
             Fold(Canonicalizer(free_vars), value, 0))

(***************************************************************************)
(* resolvent_clause (resolvent.rs).                                        *)
(***************************************************************************)
Positive(goal) == [k |-> "Positive", goal |-> goal]
Negative(goal) == [k |-> "Negative", goal |-> goal]

ExClause(subst, delayed_literals, constraints, subgoals) ==
  [subst |-> subst, delayed_literals |-> delayed_literals,
   constraints |-> constraints, subgoals |-> subgoals]

\* UnificationResult::into_ex_clause: the goals become positive literals
\* after the subgoals, the constraints go after the constraints.
into_ex_clause(unification_result, ex) ==
  [ex EXCEPT
     !.subgoals = ex.subgoals \o
        [i \in 1..Len(unification_result.goals) |-> Positive(unification_result.goals[i])],
     !.constraints = ex.constraints \o unification_result.constraints]

\* The closure, if it stripped every Not of a condition.
RECURSIVE ConditionLiteralStripsAllNots(_, _)
ConditionLiteralStripsAllNots(environment, c) ==
  IF c.k = "Not"
    THEN IF c.goal.k = "Not" THEN ConditionLiteralStripsAllNots(environment, c.goal)
         ELSE Negative(InEnvironment(environment, c.goal))
    ELSE Positive(InEnvironment(environment, c))

\* The closure of lines 107-110: a condition as a literal.
ConditionLiteral(environment, c) ==
  IF c.k = "Not"
    THEN Negative(InEnvironment(environment, c.goal))
    ELSE Positive(InEnvironment(environment, c))

\* The ExClause, if it were built with an empty subst.
ResolventExClauseDropsSubst(environment, subst, unification_result, conditions) ==
  LET ex0 == ExClause(<<>>, <<>>, <<>>, <<>>)
      ex1 == into_ex_clause(unification_result, ex0)
  IN [ex1 EXCEPT !.subgoals =
        ex1.subgoals \o [i \in 1..Len(conditions) |->
                           ConditionLiteral(environment, conditions[i])]]

\* Lines 93-112: the ExClause built once unification has succeeded.
ResolventExClause(environment, subst, unification_result, conditions) ==
  LET ex0 == ExClause(subst, <<>>, <<>>, <<>>)
      ex1 == into_ex_clause(unification_result, ex0)
  IN [ex1 EXCEPT !.subgoals =
        ex1.subgoals \o [i \in 1..Len(conditions) |->
                           ConditionLiteral(environment, conditions[i])]]

\* The return, if the error of unify were not propagated.
ResolventReturnIgnoresFailure(environment, subst, unification_result, conditions) ==
  [result |-> "Ok",
   ex_clause |-> ResolventExClause(environment, subst, unification_result, conditions)]

\* How resolvent_clause returns, given the unification's outcome: the ? of
\* line 91 returns the error, otherwise Ok(ex_clause).
ResolventReturn(environment, subst, unification_result, conditions) ==
  IF unification_result.status # "Ok"
    THEN [result |-> unification_result.status, ex_clause |-> None]
    ELSE [result |-> "Ok",
          ex_clause |-> ResolventExClause(environment, subst, unification_result, conditions)]

\* resolvent_clause, if it took a snapshot at entry and rolled the table back
\* to it when unification fails.
ResolventClauseRollsBack(infer, environment, goal, subst, clause) ==
  LET inst == instantiate_binders_existentially(infer, clause)
      consequence == inst.value.consequence
      conditions == inst.value.conditions
      unification_result ==
        unify(inst.st.table, inst.st.max_universe, environment, goal, consequence)
      ret == ResolventReturn(environment, subst, unification_result, conditions)
  IN [result |-> ret.result,
      ex_clause |-> ret.ex_clause,
      table |-> IF ret.result = "Ok" THEN unification_result.table ELSE infer.table,
      max_universe |-> IF ret.result = "Ok" THEN unification_result.max_universe
                       ELSE infer.max_universe,
      locals |-> [consequence |-> consequence, conditions |-> conditions,
                  instantiated |-> [table |-> inst.st.table,
                                    max_universe |-> inst.st.max_universe],
                  unification_result |-> unification_result]]

\* resolvent_clause(infer, environment, goal, subst, clause)
resolvent_clause(infer, environment, goal, subst, clause) ==
  LET inst == instantiate_binders_existentially(infer, clause)
      consequence == inst.value.consequence
      conditions == inst.value.conditions
      unification_result ==
        unify(inst.st.table, inst.st.max_universe, environment, goal, consequence)
      ret == ResolventReturn(environment, subst, unification_result, conditions)
  IN [result |-> ret.result,
      ex_clause |-> ret.ex_clause,
      table |-> unification_result.table,
      max_universe |-> unification_result.max_universe,
      locals |-> [consequence |-> consequence, conditions |-> conditions,
                  instantiated |-> [table |-> inst.st.table,
                                    max_universe |-> inst.st.max_universe],
                  unification_result |-> unification_result]]


(***************************************************************************)
(* The inputs of the resolvent operations: a few item ids, types, tables.  *)
(***************************************************************************)
U32 == Apply(ItemId(10), <<>>)
I32 == Apply(ItemId(11), <<>>)
Vec(t) == Apply(ItemId(12), <<t>>)

\* Traits
Clone == ItemId(1)
Copy == ItemId(2)
Foo == ItemId(3)
Same == ItemId(4)
\* An associated type
Item == ItemId(5)

Env0 == [clauses |-> <<>>]
Env1 == [clauses |-> <<Implemented(Copy, <<I32>>)>>]
Environments == {Env0, Env1}

\* The tables the operations start from, each built by the table's own
\* operations from the empty table.  Variable 0 is used as a type, 1 as a
\* lifetime, 2 as a type.
EmptyInfer == UnifyState(<<>>, 0)
Infer1 == new_variable(EmptyInfer, 0)
Infer2 == new_variable(new_universe(Infer1), 1)
Infer3 == InstantiateVar(new_variable(new_universe(Infer2), 1), 0, Vec(TyVar(2)))
Infer4 == new_universe(InstantiateVar(Infer1, 0, U32))
InitInfers == {EmptyInfer, Infer1, Infer2, Infer3, Infer4}

InitVarKinds == <<"Ty", "Lifetime", "Ty">>

\* Whether every free variable of t is a variable of the table, used at its kind.
RECURSIVE FreeVars(_, _)
FreeVars(t, binders) ==
  LET Each(s, b) == UNION {FreeVars(s[i], b) : i \in 1..Len(s)}
  IN CASE IsVar(t) ->
            IF t.depth >= binders THEN {VarOfKind(KindOf(t), t.depth - binders)} ELSE {}
       [] t.k \in {"Apply", "Projection", "Implemented"} -> Each(t.parameters, binders)
       [] t.k = "ForAll" -> FreeVars(t.ty, binders + t.num_binders)
       [] t.k = "ProjectionEq" -> FreeVars(t.projection, binders) \cup FreeVars(t.ty, binders)
       [] t.k = "Not" -> FreeVars(t.goal, binders)
       [] t.k = "Quantified" -> FreeVars(t.value, binders + Len(t.binders))
       [] t.k = "LifetimeEq" -> FreeVars(t.a, binders) \cup FreeVars(t.b, binders)
       [] OTHER -> {}

FitsTable(tbl, t) ==
  \A v \in FreeVars(t, 0) : v.depth < Len(tbl) /\ KindOf(v) = InitVarKinds[v.depth + 1]

ClauseGoals ==
  {Implemented(Clone, <<TyVar(0)>>),
   Implemented(Clone, <<U32>>),
   Implemented(Clone, <<Vec(TyVar(0))>>),
   Implemented(Clone, <<Vec(U32)>>),
   Implemented(Copy, <<I32>>),
   Implemented(Foo, <<U32, LifetimeForAll(1)>>),
   Implemented(Foo, <<TyVar(0), LifetimeVar(1)>>),
   Implemented(Clone, <<SkolemTy(1)>>),
   Implemented(Clone, <<TyVar(2)>>),
   Implemented(Same, <<U32, I32>>),
   Implemented(Same, <<TyVar(0), Vec(TyVar(0))>>)}

ProgramClauses ==
  {\* forall U. U: Clone :- U: Copy
   Binders(<<"Ty">>, ProgramClauseImplication(Implemented(Clone, <<TyVar(0)>>),
                                              <<Implemented(Copy, <<TyVar(0)>>)>>)),
   \* u32: Clone
   Binders(<<>>, ProgramClauseImplication(Implemented(Clone, <<U32>>), <<>>)),
   \* forall T. Vec<T>: Clone :- T: Clone, not { T: Copy }
   Binders(<<"Ty">>, ProgramClauseImplication(Implemented(Clone, <<Vec(TyVar(0))>>),
                       <<Implemented(Clone, <<TyVar(0)>>),
                         Not(Implemented(Copy, <<TyVar(0)>>))>>)),
   \* forall T, 'a. T: Foo<'a> :- forall<X> { X: Foo<'a> }
   Binders(<<"Ty", "Lifetime">>,
           ProgramClauseImplication(Implemented(Foo, <<TyVar(0), LifetimeVar(1)>>),
             <<Quantified("ForAll", <<"Ty">>,
                          Implemented(Foo, <<TyVar(0), LifetimeVar(2)>>))>>)),
   \* u32: Foo<'!2>
   Binders(<<>>, ProgramClauseImplication(Implemented(Foo, <<U32, LifetimeForAll(2)>>), <<>>)),
   \* forall T. <T as Iterator>::Item: Clone :- T: Copy, not { not { T: Copy } }
   Binders(<<"Ty">>,
           ProgramClauseImplication(Implemented(Clone, <<Projection(Item, <<TyVar(0)>>)>>),
             <<Implemented(Copy, <<TyVar(0)>>),
               Not(Not(Implemented(Copy, <<TyVar(0)>>)))>>)),
   \* forall T. T: Same<T>
   Binders(<<"Ty">>, ProgramClauseImplication(Implemented(Same, <<TyVar(0), TyVar(0)>>), <<>>))}

Substitutions == {<<>>, <<TyVar(0)>>, <<U32, LifetimeVar(1)>>}

InitClause ==
  /\ op = "idle"
  /\ \E infer \in InitInfers : table = infer.table /\ max_universe = infer.max_universe
  /\ value0 = None
  /\ universes = <<>>
  /\ todo = <<>>
  /\ adds = <<>>
  /\ ucanonicalized = None
  /\ args = None
  /\ locals = None
  /\ result = "none"
  /\ ex_clause = None

\* A call of resolvent_clause on the table as it stands.
ResolventClause(environment, goal, subst, clause) ==
  /\ op = "idle"
  /\ FitsTable(table, goal)
  /\ \A i \in 1..Len(subst) : FitsTable(table, subst[i])
  /\ \E r \in {resolvent_clause(UnifyState(table, max_universe), environment, goal, subst, clause)} :
        /\ op' = "clause_done"
        /\ args' = [infer |-> [table |-> table, max_universe |-> max_universe],
                    environment |-> environment, goal |-> goal, subst |-> subst,
                    clause |-> clause]
        /\ locals' = r.locals
        /\ result' = r.result
        /\ ex_clause' = r.ex_clause
        /\ table' = r.table
        /\ max_universe' = r.max_universe
  /\ UNCHANGED uvars

NextClause ==
  \E environment \in Environments, goal \in ClauseGoals,
     subst \in Substitutions, clause \in ProgramClauses :
       ResolventClause(environment, goal, subst, clause)

SpecClause == InitClause /\ [][NextClause]_vars

(***************************************************************************)
(* Claims about resolvent_clause.                                          *)
(***************************************************************************)

\* The clause of the finished call, instantiated on the table the call began with.
ClauseInstantiated ==
  instantiate_binders_existentially(
    UnifyState(args.infer.table, args.infer.max_universe), args.clause)

\* The unification of the selected goal with the instantiated consequence.
ClauseUnification ==
  unify(ClauseInstantiated.st.table, ClauseInstantiated.st.max_universe,
        args.environment, args.goal, ClauseInstantiated.value.consequence)

\* C1: resolvent_clause returns NoSolution and no ExClause whenever the
\* unification of the selected goal with the existentially instantiated
\* consequence fails, and returns an ExClause only when it succeeds.
C1_NoSolutionWhenUnifyFails ==
  op = "clause_done" =>
    /\ ClauseUnification.status # "Ok" => result = "NoSolution" /\ ex_clause = None
    /\ ex_clause # None => result = "Ok" /\ ClauseUnification.status = "Ok"
    /\ result = "Ok" => ex_clause # None

C1_Witness ==
  /\ op = "clause_done"
  /\ Len(args.clause.binders) > 0
  /\ ClauseUnification.status = "NoSolution"
  /\ result = "NoSolution"
  /\ ex_clause = None

\* C2: a successful resolvent_clause returns an ExClause whose subst is the
\* input subst, whose delayed_literals is empty and whose constraints are
\* exactly the constraints of the goal/consequence unification.
C2_ResolventFrame ==
  op = "clause_done" /\ result = "Ok" =>
    /\ ex_clause.subst = args.subst
    /\ ex_clause.delayed_literals = <<>>
    /\ ex_clause.constraints = ClauseUnification.constraints

C2_Witness ==
  /\ op = "clause_done"
  /\ result = "Ok"
  /\ Len(args.subst) > 0
  /\ Len(ClauseUnification.constraints) > 0
  /\ ex_clause.constraints = ClauseUnification.constraints

\* The literal the claim gives for a condition: Not(c) is Negative(c in env),
\* anything else is Positive(c in env); only the outermost Not is stripped.
ExpectedLiteral(environment, c) ==
  IF c.k = "Not"
    THEN [k |-> "Negative", goal |-> [environment |-> environment, goal |-> c.goal]]
    ELSE [k |-> "Positive", goal |-> [environment |-> environment, goal |-> c]]

\* C3: the subgoals of a successful resolvent_clause are the subgoals of the
\* unification followed by one literal per condition of the instantiated
\* clause, in the clause's order, each in the caller's environment.
C3_ResolventSubgoals ==
  op = "clause_done" /\ result = "Ok" =>
    LET goals == ClauseUnification.goals
        conditions == ClauseInstantiated.value.conditions
    IN /\ Len(ex_clause.subgoals) = Len(goals) + Len(conditions)
       /\ \A i \in 1..Len(goals) :
            ex_clause.subgoals[i] = [k |-> "Positive", goal |-> goals[i]]
       /\ \A i \in 1..Len(conditions) :
            ex_clause.subgoals[Len(goals) + i] =
              ExpectedLiteral(args.environment, conditions[i])

C3_Witness ==
  /\ op = "clause_done"
  /\ result = "Ok"
  /\ Len(ClauseUnification.goals) > 0
  /\ \E i \in 1..Len(ClauseInstantiated.value.conditions) :
       /\ ClauseInstantiated.value.conditions[i].k = "Not"
       /\ ClauseInstantiated.value.conditions[i].goal.k = "Not"
       /\ ex_clause.subgoals[Len(ClauseUnification.goals) + i].k = "Negative"
       /\ ex_clause.subgoals[Len(ClauseUnification.goals) + i].goal.goal.k = "Not"

(***************************************************************************)
(* apply_answer_subst (resolvent.rs): the AnswerSubstitutor zips the       *)
(* answer table goal against the pending goal.  The zipper z carries the   *)
(* fields of the struct, how the zip stands (status, panic message) and a  *)
(* log of the calls made: an entry per call of zip_tys, zip_lifetimes and  *)
(* zip_consts, and an entry per call of unify.                             *)
(***************************************************************************)
AnswerSubstitutor(tbl, mu, environment, answer_subst, ex, overflow_checks) ==
  [status |-> "Ok", panic |-> None, table |-> tbl, max_universe |-> mu,
   environment |-> environment, answer_subst |-> answer_subst, ex_clause |-> ex,
   answer_binders |-> 0, pending_binders |-> 0, stack |-> <<>>, log |-> <<>>,
   overflow_checks |-> overflow_checks]

Panic(z, msg, left, right) ==
  [z EXCEPT !.status = "Panic", !.panic = [msg |-> msg, left |-> left, right |-> right]]

Log(z, e) == [z EXCEPT !.log = Append(z.log, e)]

ZipEvent(z, sort, answer, pending, path) ==
  [e |-> "zip", sort |-> sort, answer |-> answer, pending |-> pending,
   answer_binders |-> z.answer_binders, pending_binders |-> z.pending_binders,
   table |-> z.table, path |-> path]

UnifyEvent(a, b, u) ==
  [e |-> "unify", a |-> a, b |-> b, status |-> u.status,
   goals |-> u.goals, constraints |-> u.constraints]

\* The call of unify, if a failure were taken for a success.
UnifyFoldSwallowsFailure(z, answer_param, pending_shifted, u) ==
  [z |-> Log(z, UnifyEvent(answer_param, pending_shifted, u)), unified |-> TRUE]

\* Lines 284-286: what is done with the result u of the call of unify.
UnifyFold(z, answer_param, pending_shifted, u) ==
  [z |-> Log([z EXCEPT !.table = u.table, !.max_universe = u.max_universe,
                       !.status = u.status,
                       !.ex_clause = IF u.status = "Ok" THEN into_ex_clause(u, @) ELSE @],
             UnifyEvent(answer_param, pending_shifted, u)),
   unified |-> u.status = "Ok"]

UnifyAndFold(z, answer_param, pending_shifted) ==
  UnifyFold(z, answer_param, pending_shifted,
            unify(z.table, z.max_universe, z.environment, answer_param, pending_shifted))

\* Lines 275-286: the down-shifted pending side, or the panic.
ShiftedAndUnified(z, answer_param, pending, pending_shifted) ==
  IF pending_shifted = Err
    THEN [z |-> Panic(z, "truncate extracted a pending value that references internal binder",
                      pending, pending),
          unified |-> FALSE]
    ELSE UnifyAndFold(z, answer_param, pending_shifted)

\* unify_free_answer_var, if the pending side were not down-shifted.
UnifyFreeAnswerVarNoShift(z, answer_depth, pending) ==
  IF answer_depth < z.answer_binders THEN [z |-> z, unified |-> FALSE]
  ELSE IF answer_depth - z.answer_binders >= Len(z.answer_subst)
    THEN [z |-> Panic(z, "index out of bounds", answer_depth - z.answer_binders,
                      Len(z.answer_subst)),
          unified |-> FALSE]
  ELSE UnifyAndFold(z, z.answer_subst[answer_depth - z.answer_binders + 1], pending)

\* unify_free_answer_var, if the parameter were looked up at answer_depth
\* itself, the binders entered not taken off.
UnifyFreeAnswerVarNoBinders(z, answer_depth, pending) ==
  IF answer_depth < z.answer_binders THEN [z |-> z, unified |-> FALSE]
  ELSE IF answer_depth >= Len(z.answer_subst)
    THEN [z |-> Panic(z, "index out of bounds", answer_depth, Len(z.answer_subst)),
          unified |-> FALSE]
  ELSE ShiftedAndUnified(z, z.answer_subst[answer_depth + 1],
                         pending, down_shift(pending, z.pending_binders))

\* AnswerSubstitutor::unify_free_answer_var
unify_free_answer_var(z, answer_depth, pending) ==
  IF answer_depth < z.answer_binders THEN [z |-> z, unified |-> FALSE]
  ELSE IF answer_depth - z.answer_binders >= Len(z.answer_subst)
    THEN [z |-> Panic(z, "index out of bounds", answer_depth - z.answer_binders,
                      Len(z.answer_subst)),
          unified |-> FALSE]
  ELSE ShiftedAndUnified(z, z.answer_subst[answer_depth - z.answer_binders + 1],
                         pending, down_shift(pending, z.pending_binders))

\* AnswerSubstitutor::assert_matching_vars.  The two differences of line
\* 301-304 are taken in usize: with overflow checks a negative difference
\* panics, without them it wraps, and two wrapped differences of depths this
\* small are equal exactly when the integer differences are.
assert_matching_vars(z, answer_depth, pending_depth) ==
  IF ~(answer_depth < z.answer_binders)
    THEN Panic(z, "assertion failed: answer_depth < self.answer_binders",
               answer_depth, z.answer_binders)
  ELSE IF ~(pending_depth < z.answer_binders)
    THEN Panic(z, "assertion failed: pending_depth < self.answer_binders",
               pending_depth, z.answer_binders)
  ELSE IF z.overflow_checks
            /\ (answer_depth < z.answer_binders \/ pending_depth < z.pending_binders)
    THEN Panic(z, "attempt to subtract with overflow", answer_depth, pending_depth)
  ELSE IF answer_depth - z.answer_binders # pending_depth - z.pending_binders
    THEN Panic(z, "assertion failed: left == right",
               answer_depth - z.answer_binders, pending_depth - z.pending_binders)
  ELSE z

\* The last arm, if it returned NoSolution instead of panicking.
StructuralMismatchNoSolution(z, answer, pending) == [z EXCEPT !.status = "NoSolution"]

\* The last arm of the match of zip_tys and of zip_lifetimes.
StructuralMismatch(z, answer, pending) ==
  Panic(z, "structural mismatch between answer and pending goal", answer, pending)

\* zip_lifetimes, lines 377-380: assert_eq!(answer_ui, pending_ui).
ZipLifetimeSkolems(z, answer_ui, pending_ui) ==
  IF answer_ui # pending_ui
    THEN Panic(z, "assertion failed: left == right", answer_ui, pending_ui)
    ELSE z

\* A mismatch met by the generic Zip of the term structure (names, arities,
\* goal variants, parameter kinds).
ZipMismatch(z, a, b) == Panic(z, "structural mismatch", a, b)

\* The zip is a traversal in lockstep of the two terms, left to right.  The
\* calls of Zip::zip_with still to be made are kept on z.stack, the next one
\* first: a frame "zip" is a call on a pair of subterms, a frame "exit" is
\* the code that follows the call made under binders.
ZipFrame(a, b, path) == [f |-> "zip", a |-> a, b |-> b, path |-> path]
ExitFrame(answer_n, pending_n) ==
  [f |-> "exit", answer_n |-> answer_n, pending_n |-> pending_n]

Push(z, frames) == [z EXCEPT !.stack = frames \o @]

\* Zip for a slice: the elements in order.
ZipEach(z, as, bs, path) ==
  Push(z, [i \in 1..Len(as) |-> ZipFrame(as[i], bs[i], Append(path, i))])

\* Zip for ApplicationTy: the names, then the parameters.
ZipApplicationTy(z, a, b, path) ==
  IF a.name = b.name /\ Len(a.parameters) = Len(b.parameters)
    THEN ZipEach(z, a.parameters, b.parameters, path)
    ELSE ZipMismatch(z, a, b)

\* Zip for ProjectionTy: the associated type, then the parameters.
ZipProjectionTy(z, a, b, path) ==
  IF a.associated_ty_id = b.associated_ty_id /\ Len(a.parameters) = Len(b.parameters)
    THEN ZipEach(z, a.parameters, b.parameters, path)
    ELSE ZipMismatch(z, a, b)

\* Entering binders: the ForAll arm of zip_tys and zip_binders add to the
\* two counts, zip the bodies and then subtract again.
ZipUnder(z, answer_n, pending_n, answer, pending, path) ==
  Push([z EXCEPT !.answer_binders = @ + answer_n, !.pending_binders = @ + pending_n],
       <<ZipFrame(answer, pending, Append(path, 1)), ExitFrame(answer_n, pending_n)>>)

ZipExit(z, answer_n, pending_n) ==
  [z EXCEPT !.answer_binders = @ - answer_n, !.pending_binders = @ - pending_n]

\* zip_binders
zip_binders(z, answer, pending, path) ==
  ZipUnder(z, Len(answer.binders), Len(pending.binders), answer.value, pending.value, path)

\* The match, if a pair of projections were unified instead of zipped.
ZipTysMatchUnifiesProjections(z, answer, pending, path) ==
  CASE answer.k = "TyVar" /\ pending.k = "TyVar" ->
         assert_matching_vars(z, answer.depth, pending.depth)
    [] answer.k = "Apply" /\ pending.k = "Apply" -> ZipApplicationTy(z, answer, pending, path)
    [] answer.k = "Projection" /\ pending.k = "Projection" ->
         UnifyAndFold(z, answer, pending).z
    [] answer.k = "ForAll" /\ pending.k = "ForAll" ->
         ZipUnder(z, answer.num_binders, pending.num_binders, answer.ty, pending.ty, path)
    [] OTHER -> StructuralMismatch(z, answer, pending)

\* The match of zip_tys, lines 326-358.
ZipTysMatch(z, answer, pending, path) ==
  CASE answer.k = "TyVar" /\ pending.k = "TyVar" ->
         assert_matching_vars(z, answer.depth, pending.depth)
    [] answer.k = "Apply" /\ pending.k = "Apply" -> ZipApplicationTy(z, answer, pending, path)
    [] answer.k = "Projection" /\ pending.k = "Projection" ->
         ZipProjectionTy(z, answer, pending, path)
    [] answer.k = "ForAll" /\ pending.k = "ForAll" ->
         ZipUnder(z, answer.num_binders, pending.num_binders, answer.ty, pending.ty, path)
    [] OTHER -> StructuralMismatch(z, answer, pending)

\* The match of zip_lifetimes, lines 372-386.
ZipLifetimesMatch(z, answer, pending) ==
  CASE answer.k = "LifetimeVar" /\ pending.k = "LifetimeVar" ->
         assert_matching_vars(z, answer.depth, pending.depth)
    [] answer.k = "LifetimeForAll" /\ pending.k = "LifetimeForAll" ->
         ZipLifetimeSkolems(z, answer.ui, pending.ui)
    [] OTHER -> StructuralMismatch(z, answer, pending)

\* What zip_tys, zip_lifetimes and zip_consts do once unify_free_answer_var
\* has returned r: propagate its error, stop if it unified, else match.
ZipAfterFreeVar(r, sort, answer, pending, path) ==
  IF r.z.status # "Ok" \/ r.unified THEN r.z
  ELSE CASE sort = "Ty" -> ZipTysMatch(r.z, answer, pending, path)
         [] sort = "Lifetime" -> ZipLifetimesMatch(r.z, answer, pending)
         [] sort = "Const" -> assert_matching_vars(r.z, answer.depth, pending.depth)

\* Zipper::zip_tys, zip_lifetimes, zip_consts on a pending side that
\* normalize_{shallow,lifetime,const} left alone: a variable on the answer
\* side goes to unify_free_answer_var first (a const is always a variable).
ZipNotNormalized(z, sort, answer, pending, path) ==
  ZipAfterFreeVar(
    IF IsVar(answer) THEN unify_free_answer_var(z, answer.depth, pending)
    ELSE [z |-> z, unified |-> FALSE],
    sort, answer, pending, path)

\* Zipper::zip_tys, zip_lifetimes, zip_consts: an instantiated pending
\* variable is replaced by its value and the pair zipped again.
ZipParameter(z, normalized, sort, answer, pending, path) ==
  IF normalized # None
    THEN Push(Log(z, ZipEvent(z, sort, answer, pending, path)),
              <<ZipFrame(answer, normalized, path)>>)
    ELSE ZipNotNormalized(Log(z, ZipEvent(z, sort, answer, pending, path)),
                          sort, answer, pending, path)

ZipTys(z, answer, pending, path) ==
  ZipParameter(z, normalize_shallow(z.table, pending, z.pending_binders),
               "Ty", answer, pending, path)

ZipLifetimes(z, answer, pending, path) ==
  ZipParameter(z, normalize_shallow(z.table, pending, z.pending_binders),
               "Lifetime", answer, pending, path)

ZipConsts(z, answer, pending, path) ==
  ZipParameter(z, normalize_shallow(z.table, pending, z.pending_binders),
               "Const", answer, pending, path)

\* Zip::zip_with on a pair of parameters or goals.
Zip(z, a, b, path) ==
  CASE KindOf(a) = "Ty" /\ KindOf(b) = "Ty" -> ZipTys(z, a, b, path)
    [] KindOf(a) = "Lifetime" /\ KindOf(b) = "Lifetime" -> ZipLifetimes(z, a, b, path)
    [] KindOf(a) = "Const" /\ KindOf(b) = "Const" -> ZipConsts(z, a, b, path)
    [] KindOf(a) # "Goal" \/ KindOf(b) # "Goal" -> ZipMismatch(z, a, b)
    [] a.k # b.k -> ZipMismatch(z, a, b)
    [] a.k = "Implemented" ->
         IF a.trait_id = b.trait_id /\ Len(a.parameters) = Len(b.parameters)
           THEN ZipEach(z, a.parameters, b.parameters, path)
           ELSE ZipMismatch(z, a, b)
    [] a.k = "ProjectionEq" ->
         Push(ZipProjectionTy(z, a.projection, b.projection, Append(path, 1)),
              <<ZipFrame(a.ty, b.ty, Append(path, 2))>>)
    [] a.k = "Not" -> Push(z, <<ZipFrame(a.goal, b.goal, Append(path, 1))>>)
    [] a.k = "Quantified" ->
         IF a.kind = b.kind THEN zip_binders(z, a, b, path) ELSE ZipMismatch(z, a, b)
    [] a.k = "LifetimeEq" ->
         Push(z, <<ZipFrame(a.a, b.a, Append(path, 1)), ZipFrame(a.b, b.b, Append(path, 2))>>)

\* The next call on the stack.
ZipStep(z, frame) ==
  IF frame.f = "exit" THEN ZipExit(z, frame.answer_n, frame.pending_n)
  ELSE Zip(z, frame.a, frame.b, frame.path)

\* The whole zip: an error (the ? of every call) ends it at once.
RECURSIVE ZipRun(_)
ZipRun(z) ==
  IF z.status # "Ok" \/ z.stack = <<>> THEN z
  ELSE ZipRun(ZipStep([z EXCEPT !.stack = Tail(@)], Head(z.stack)))

\* Zip for InEnvironment<Goal>: the clauses of the environments, then the goals.
ZipInEnvironment(z, a, b) ==
  IF Len(a.environment.clauses) # Len(b.environment.clauses)
    THEN ZipMismatch(z, a.environment, b.environment)
    ELSE ZipRun(Push(ZipEach(z, a.environment.clauses, b.environment.clauses, <<0>>),
                     <<ZipFrame(a.goal, b.goal, <<1>>)>>))

\* AnswerSubstitutor::substitute
substitute(tbl, mu, environment, answer_subst, ex, answer, pending, overflow_checks) ==
  ZipInEnvironment(AnswerSubstitutor(tbl, mu, environment, answer_subst, ex, overflow_checks),
                   answer, pending)

\* The return, if the answer's constraints were put first.
ApplyAnswerReturnConstraintsFirst(z, answer_constraints) ==
  IF z.status # "Ok" THEN [result |-> z.status, ex_clause |-> None]
  ELSE [result |-> "Ok",
        ex_clause |-> [z.ex_clause EXCEPT !.constraints = answer_constraints \o @]]

\* Lines 219-228: the ? on the zip, then the answer's constraints.
ApplyAnswerReturn(z, answer_constraints) ==
  IF z.status # "Ok" THEN [result |-> z.status, ex_clause |-> None]
  ELSE [result |-> "Ok",
        ex_clause |-> [z.ex_clause EXCEPT !.constraints = @ \o answer_constraints]]

\* What the call leaves behind: how it returned, the table, and the values
\* it computed on the way.
ApplyAnswerOutcome(ret, z, answer_subst, answer_constraints) ==
  [result |-> ret.result,
   ex_clause |-> ret.ex_clause,
   table |-> z.table,
   max_universe |-> z.max_universe,
   locals |-> [answer_subst |-> answer_subst, answer_constraints |-> answer_constraints,
               log |-> z.log, panic |-> z.panic,
               answer_binders |-> z.answer_binders,
               pending_binders |-> z.pending_binders]]

ApplyAnswerZipped(z, answer_subst, answer_constraints) ==
  ApplyAnswerOutcome(ApplyAnswerReturn(z, answer_constraints), z,
                     answer_subst, answer_constraints)

ApplyAnswerInstantiated(inst, ex, selected_goal, answer_table_goal, overflow_checks) ==
  ApplyAnswerZipped(
    substitute(inst.st.table, inst.st.max_universe, selected_goal.environment,
               inst.value.subst, ex, answer_table_goal.value, selected_goal,
               overflow_checks),
    inst.value.subst, inst.value.constraints)

\* apply_answer_subst(infer, ex_clause, selected_goal, answer_table_goal,
\*                    canonical_answer_subst)
apply_answer_subst(infer, ex, selected_goal, answer_table_goal, canonical_answer_subst, overflow_checks) ==
  ApplyAnswerInstantiated(instantiate_canonical(infer, canonical_answer_subst),
                          ex, selected_goal, answer_table_goal, overflow_checks)

(***************************************************************************)
(* The inputs of apply_answer_subst.                                       *)
(***************************************************************************)
Pair(a, b) == Apply(ItemId(13), <<a, b>>)

\* The goals of pending ex-clauses; their variables are the table's.
SelectedGoals ==
  {Implemented(Foo, <<U32, Vec(TyVar(0))>>),
   Implemented(Foo, <<U32, TyVar(0)>>),
   Implemented(Foo, <<U32, U32>>),
   Implemented(Foo, <<TyVar(0), LifetimeVar(1)>>),
   Implemented(Foo, <<U32, LifetimeForAll(1)>>),
   Implemented(Foo, <<U32, LifetimeForAll(2)>>),
   Implemented(Clone, <<ForAllTy(1, Pair(TyVar(0), TyVar(1)))>>),
   Implemented(Clone, <<ForAllTy(1, Pair(TyVar(0), TyVar(0)))>>),
   Implemented(Clone, <<ForAllTy(2, Pair(TyVar(1), TyVar(1)))>>),
   Implemented(Clone, <<ForAllTy(2, Vec(TyVar(2)))>>),
   Quantified("ForAll", <<"Ty">>, Implemented(Foo, <<TyVar(0), TyVar(1)>>)),
   Implemented(Clone, <<Projection(Item, <<TyVar(0)>>)>>),
   Not(Implemented(Foo, <<U32, Vec(TyVar(2))>>))}

\* Table goals in canonical form: the binders and the goal.
AnswerTableGoals ==
  {Binders(<<PK("Ty", 0)>>, Implemented(Foo, <<U32, Vec(TyVar(0))>>)),
   Binders(<<PK("Ty", 0)>>, Implemented(Foo, <<U32, TyVar(0)>>)),
   Binders(<<PK("Ty", 0), PK("Lifetime", 0)>>,
           Implemented(Foo, <<TyVar(0), LifetimeVar(1)>>)),
   Binders(<<PK("Lifetime", 0)>>, Implemented(Foo, <<U32, LifetimeVar(0)>>)),
   Binders(<<>>, Implemented(Foo, <<U32, LifetimeForAll(1)>>)),
   Binders(<<PK("Ty", 0)>>, Implemented(Clone, <<ForAllTy(1, Pair(TyVar(0), TyVar(1)))>>)),
   Binders(<<>>, Implemented(Clone, <<ForAllTy(1, Pair(TyVar(0), TyVar(0)))>>)),
   Binders(<<PK("Ty", 0)>>, Implemented(Clone, <<ForAllTy(1, Vec(TyVar(1)))>>)),
   Binders(<<PK("Ty", 0)>>,
           Quantified("ForAll", <<"Ty">>, Implemented(Foo, <<TyVar(0), TyVar(1)>>))),
   Binders(<<PK("Ty", 0)>>, Implemented(Clone, <<Projection(Item, <<TyVar(0)>>)>>)),
   Binders(<<PK("Ty", 0)>>, Not(Implemented(Foo, <<U32, Vec(TyVar(0))>>)))}

\* Answers: a canonical substitution with its lifetime constraints.
CanonicalAnswerSubsts ==
  {Binders(<<>>, ConstrainedSubst(<<U32>>, <<>>)),
   Binders(<<PK("Ty", 0)>>, ConstrainedSubst(<<Vec(TyVar(0))>>, <<>>)),
   Binders(<<>>, ConstrainedSubst(<<Projection(Item, <<U32>>)>>, <<>>)),
   Binders(<<>>, ConstrainedSubst(<<U32, LifetimeForAll(1)>>,
             <<InEnvironment(Env0, LifetimeEq(LifetimeForAll(1), LifetimeForAll(2)))>>)),
   Binders(<<PK("Lifetime", 0)>>, ConstrainedSubst(<<U32, LifetimeVar(0)>>,
             <<InEnvironment(Env0, LifetimeEq(LifetimeVar(0), LifetimeForAll(1)))>>)),
   Binders(<<>>, ConstrainedSubst(<<LifetimeForAll(1)>>, <<>>)),
   Binders(<<>>, ConstrainedSubst(<<>>,
             <<InEnvironment(Env0, LifetimeEq(LifetimeForAll(1), LifetimeForAll(2)))>>)),
   Binders(<<>>, ConstrainedSubst(<<>>, <<>>))}

\* An answer of a table has one parameter per binder of the table's goal,
\* of the binder's kind.
AnswersTable(canonical_answer_subst, answer_table_goal) ==
  /\ Len(canonical_answer_subst.value.subst) = Len(answer_table_goal.binders)
  /\ \A i \in 1..Len(answer_table_goal.binders) :
       KindOf(canonical_answer_subst.value.subst[i]) = answer_table_goal.binders[i].kind

\* The pending ex-clauses.
ExClauses ==
  {ExClause(<<>>, <<>>, <<>>, <<>>),
   ExClause(<<U32>>, <<[k |-> "Negative", table |-> 0]>>,
            <<InEnvironment(Env0, LifetimeEq(LifetimeForAll(2), LifetimeForAll(1)))>>,
            <<Positive(InEnvironment(Env0, Implemented(Copy, <<U32>>)))>>)}

InitAnswer == InitClause

\* A call of apply_answer_subst on the table as it stands; overflow_checks
\* tells whether the build checks integer overflow.
ApplyAnswerSubst(ex, selected_goal, answer_table_goal, canonical_answer_subst, overflow_checks) ==
  /\ op = "idle"
  /\ FitsTable(table, selected_goal.goal)
  /\ AnswersTable(canonical_answer_subst, answer_table_goal)
  /\ \E r \in {apply_answer_subst(UnifyState(table, max_universe), ex, selected_goal,
                                  answer_table_goal, canonical_answer_subst,
                                  overflow_checks)} :
        /\ op' = "answer_done"
        /\ args' = [infer |-> [table |-> table, max_universe |-> max_universe],
                    ex_clause |-> ex, selected_goal |-> selected_goal,
                    answer_table_goal |-> answer_table_goal,
                    canonical_answer_subst |-> canonical_answer_subst,
                    overflow_checks |-> overflow_checks]
        /\ locals' = r.locals
        /\ result' = r.result
        /\ ex_clause' = r.ex_clause
        /\ table' = r.table
        /\ max_universe' = r.max_universe
  /\ UNCHANGED uvars

NextAnswer ==
  \E ex \in ExClauses, environment \in Environments, goal \in SelectedGoals,
     answer \in AnswerTableGoals, canonical_answer_subst \in CanonicalAnswerSubsts,
     overflow_checks \in BOOLEAN :
       ApplyAnswerSubst(ex, InEnvironment(environment, goal),
                        Binders(answer.binders, InEnvironment(environment, answer.value)),
                        canonical_answer_subst, overflow_checks)

SpecAnswer == InitAnswer /\ [][NextAnswer]_vars

(***************************************************************************)
(* Claims about apply_answer_subst.                                        *)
(***************************************************************************)

\* The answer of the finished call, instantiated on the table the call began with.
AnswerInstantiated ==
  instantiate_canonical(UnifyState(args.infer.table, args.infer.max_universe),
                        args.canonical_answer_subst)

IsPrefix(p, q) == Len(p) <= Len(q) /\ SubSeq(q, 1, Len(p)) = p

\* A logged call of zip_tys/zip_lifetimes/zip_consts whose answer side is a
\* variable free in the answer and whose pending side is not an instantiated
\* variable.
FreeAnswerVarAt(ev) ==
  /\ ev.e = "zip"
  /\ IsVar(ev.answer)
  /\ ev.answer.depth >= ev.answer_binders
  /\ normalize_shallow(ev.table, ev.pending, ev.pending_binders) = None

\* The unification the claims expect at such a call.
ExpectedUnify(ev, u) ==
  /\ u.e = "unify"
  /\ ev.answer.depth - ev.answer_binders < Len(AnswerInstantiated.value.subst)
  /\ u.a = AnswerInstantiated.value.subst[ev.answer.depth - ev.answer_binders + 1]
  /\ u.b = down_shift(ev.pending, ev.pending_binders)

\* The subgoals and the constraints of the unifications made, in order.
UnifySubgoals ==
  Concat([i \in 1..Len(locals.log) |->
            IF locals.log[i].e = "unify" /\ locals.log[i].status = "Ok"
              THEN [j \in 1..Len(locals.log[i].goals) |->
                      [k |-> "Positive", goal |-> locals.log[i].goals[j]]]
              ELSE <<>>])

UnifyConstraints ==
  Concat([i \in 1..Len(locals.log) |->
            IF locals.log[i].e = "unify" /\ locals.log[i].status = "Ok"
              THEN locals.log[i].constraints ELSE <<>>])

\* The example of the documentation: pending T: Foo<Vec<?X>>, table goal
\* T: Foo<Vec<?0>>, answer [?0 := u32], with ?X unbound.
AnswerExample ==
  /\ op = "answer_done"
  /\ args.selected_goal.goal = Implemented(Foo, <<U32, Vec(TyVar(0))>>)
  /\ probe_var(args.infer.table, 0) = None
  /\ args.answer_table_goal.value.goal = Implemented(Foo, <<U32, Vec(TyVar(0))>>)
  /\ args.canonical_answer_subst = Binders(<<>>, ConstrainedSubst(<<U32>>, <<>>))

\* C4: wherever the zip meets a free answer variable Var(d) opposite a
\* pending term that is not an instantiated variable (and that can be
\* down-shifted), the next thing done is the unification of
\* answer_subst.parameters[d - answer_binders] with the pending term
\* down-shifted by pending_binders, and nothing at or below that position is
\* zipped afterwards; in the documented example ?X ends as u32 and no subgoal
\* is added.
C4_FreeAnswerVarUnified ==
  op = "answer_done" =>
    /\ \A i \in 1..Len(locals.log) :
         (FreeAnswerVarAt(locals.log[i])
            /\ down_shift(locals.log[i].pending, locals.log[i].pending_binders) # Err) =>
           /\ i < Len(locals.log)
           /\ ExpectedUnify(locals.log[i], locals.log[i + 1])
           /\ \A j \in (i + 1)..Len(locals.log) :
                locals.log[j].e = "zip" => ~IsPrefix(locals.log[i].path, locals.log[j].path)
    /\ AnswerExample =>
         /\ result = "Ok"
         /\ normalize_deep(table, TyVar(0)) = U32
         /\ ex_clause.subgoals = args.ex_clause.subgoals

C4_Witness ==
  /\ AnswerExample
  /\ result = "Ok"
  /\ \E i \in 1..(Len(locals.log) - 1) :
       /\ FreeAnswerVarAt(locals.log[i])
       /\ locals.log[i].pending = TyVar(0)
       /\ locals.log[i + 1].e = "unify"
       /\ locals.log[i + 1].a = U32
       /\ locals.log[i + 1].b = TyVar(0)
  /\ table[1].value = U32

\* The truncated example: table goal T: Foo<?0>, answer [?0 := u32], pending
\* T: Foo<Vec<?X>>.
TruncatedExample ==
  /\ op = "answer_done"
  /\ args.selected_goal.goal = Implemented(Foo, <<U32, Vec(TyVar(0))>>)
  /\ args.answer_table_goal.value.goal = Implemented(Foo, <<U32, TyVar(0)>>)
  /\ args.canonical_answer_subst = Binders(<<>>, ConstrainedSubst(<<U32>>, <<>>))

\* C5: when a unification of an answer parameter with a pending subterm
\* fails, apply_answer_subst returns NoSolution: no panic, no ExClause; the
\* truncated example returns NoSolution.
C5_UnifyFailureIsNoSolution ==
  op = "answer_done" =>
    /\ (\E i \in 1..Len(locals.log) :
          locals.log[i].e = "unify" /\ locals.log[i].status = "NoSolution") =>
         result = "NoSolution" /\ ex_clause = None
    /\ TruncatedExample => result = "NoSolution" /\ ex_clause = None

C5_Witness ==
  /\ TruncatedExample
  /\ result = "NoSolution"
  /\ ex_clause = None
  /\ Len(locals.log) > 0
  /\ locals.log[Len(locals.log)].e = "unify"
  /\ locals.log[Len(locals.log)].a = U32
  /\ locals.log[Len(locals.log)].b.k = "Apply"
  /\ locals.log[Len(locals.log)].status = "NoSolution"

\* C6: every unification apply_answer_subst runs is the one of an answer
\* parameter with the down-shifted pending subterm at a free answer variable,
\* and on success the subgoals added to the ExClause are exactly the
\* subgoals those unifications returned, in order.
C6_OnlyParameterUnifications ==
  op = "answer_done" =>
    /\ \A i \in 1..Len(locals.log) :
         locals.log[i].e = "unify" =>
           /\ i > 1
           /\ FreeAnswerVarAt(locals.log[i - 1])
           /\ ExpectedUnify(locals.log[i - 1], locals.log[i])
    /\ result = "Ok" => ex_clause.subgoals = args.ex_clause.subgoals \o UnifySubgoals

\* C6 witness: the table goal holds a projection, which is zipped and not
\* unified; the only subgoal added is the one the unification of the
\* answer's parameter returned.
C6_Witness ==
  /\ op = "answer_done"
  /\ result = "Ok"
  /\ args.answer_table_goal.value.goal = Implemented(Clone, <<Projection(Item, <<TyVar(0)>>)>>)
  /\ Len(args.ex_clause.subgoals) > 0
  /\ Len(UnifySubgoals) = 1
  /\ UnifySubgoals[1].goal.goal.k = "ProjectionEq"
  /\ ex_clause.subgoals = args.ex_clause.subgoals \o UnifySubgoals
  /\ Cardinality({i \in 1..Len(locals.log) : locals.log[i].e = "unify"}) = 1

\* C7: on success the ExClause returned is the input one with subst and
\* delayed_literals unchanged, its subgoals followed by the unifications'
\* subgoals, its constraints followed by the unifications' constraints and
\* then by the constraints of the instantiated answer; when the zip fails no
\* ExClause is returned at all.
C7_ApplyAnswerFrame ==
  op = "answer_done" =>
    /\ result = "Ok" =>
         /\ ex_clause.subst = args.ex_clause.subst
         /\ ex_clause.delayed_literals = args.ex_clause.delayed_literals
         /\ ex_clause.subgoals = args.ex_clause.subgoals \o UnifySubgoals
         /\ ex_clause.constraints =
              args.ex_clause.constraints \o UnifyConstraints
                \o AnswerInstantiated.value.constraints
    /\ result # "Ok" => ex_clause = None

C7_Witness ==
  /\ op = "answer_done"
  /\ result = "Ok"
  /\ Len(args.ex_clause.constraints) > 0
  /\ Len(args.ex_clause.delayed_literals) > 0
  /\ Len(UnifyConstraints) > 0
  /\ Len(AnswerInstantiated.value.constraints) > 0
  /\ ex_clause.constraints[Len(ex_clause.constraints)]
       = AnswerInstantiated.value.constraints[Len(AnswerInstantiated.value.constraints)]

\* A logged call whose pending side is not an instantiated variable.
NotNormalizedAt(ev) ==
  ev.e = "zip" /\ normalize_shallow(ev.table, ev.pending, ev.pending_binders) = None

\* C8: once the pending side is not an instantiated variable: sides of
\* different constructors (the answer side not being a free answer
\* variable), two lifetime skolems of different universes, and a free answer
\* variable opposite a pending term that cannot be down-shifted each end the
\* call with a panic that names the terms, never with NoSolution.
C8_MismatchPanics ==
  op = "answer_done" =>
    \A i \in 1..Len(locals.log) :
      NotNormalizedAt(locals.log[i]) =>
        /\ (~FreeAnswerVarAt(locals.log[i]) /\ locals.log[i].answer.k # locals.log[i].pending.k) =>
             /\ result = "Panic"
             /\ locals.panic.left = locals.log[i].answer
             /\ locals.panic.right = locals.log[i].pending
        /\ (/\ locals.log[i].answer.k = "LifetimeForAll"
            /\ locals.log[i].pending.k = "LifetimeForAll"
            /\ locals.log[i].answer.ui # locals.log[i].pending.ui) =>
             /\ result = "Panic"
             /\ locals.panic.left = locals.log[i].answer.ui
             /\ locals.panic.right = locals.log[i].pending.ui
        /\ (/\ FreeAnswerVarAt(locals.log[i])
            /\ down_shift(locals.log[i].pending, locals.log[i].pending_binders) = Err) =>
             /\ result = "Panic"
             /\ locals.panic.left = locals.log[i].pending

\* C8 witness: an unbound pending variable opposite an applied type of the
\* answer.
C8_Witness ==
  /\ op = "answer_done"
  /\ result = "Panic"
  /\ ex_clause = None
  /\ Len(locals.log) > 0
  /\ locals.log[Len(locals.log)].e = "zip"
  /\ locals.log[Len(locals.log)].answer.k = "Apply"
  /\ locals.log[Len(locals.log)].pending.k = "TyVar"
  /\ NotNormalizedAt(locals.log[Len(locals.log)])
  /\ locals.panic.left = locals.log[Len(locals.log)].answer
  /\ locals.panic.right = locals.log[Len(locals.log)].pending

(***************************************************************************)
(* The instantiation operations, normalize_deep and canonicalize, each     *)
(* called once on a table; canonicalize may follow instantiate_canonical.  *)
(* args holds the call, locals the variables or parameters it made,        *)
(* result the value it returned.                                           *)
(***************************************************************************)
Array(c) == Apply(ItemId(14), <<c>>)

\* Two more tables: a chain ?0 := Vec<?2>, ?2 := u32, and a lifetime
\* variable bound to a skolem.
Infer5 == InstantiateVar(Infer3, 2, U32)
Infer6 == InstantiateVar(Infer2, 1, LifetimeForAll(1))
InstantiateInfers == InitInfers \cup {Infer5, Infer6}

\* Values under binders that have only kinds.
InstantiateArgs ==
  ProgramClauses \cup
  {Binders(<<"Lifetime">>, Implemented(Foo, <<U32, LifetimeVar(0)>>)),
   Binders(<<"Lifetime", "Ty">>, Implemented(Foo, <<TyVar(1), LifetimeVar(0)>>)),
   Binders(<<"Ty">>, Quantified("ForAll", <<"Ty">>, Implemented(Same, <<TyVar(0), TyVar(1)>>))),
   Binders(<<"Ty", "Ty">>, Implemented(Same, <<TyVar(1), TyVar(0)>>)),
   Binders(<<"Ty">>, Implemented(Clone, <<U32>>)),
   Binders(<<"Const">>, Implemented(Clone, <<Array(ConstVar(0))>>)),
   Binders(<<"Ty", "Const">>, Implemented(Same, <<TyVar(0), Array(ConstVar(1))>>)),
   \* under forall<X>: X, binder 0 (a lifetime), variable 1 of the table
   Binders(<<"Lifetime">>,
           Quantified("ForAll", <<"Ty">>,
                      Implemented(Foo, <<TyVar(0), Pair(LifetimeVar(1), LifetimeVar(3))>>))),
   \* under forall<X>: binder 0, binder 1 (a const), variable 0 of the table
   Binders(<<"Ty", "Const">>,
           Quantified("ForAll", <<"Ty">>,
                      Implemented(Foo, <<TyVar(1), Pair(Array(ConstVar(2)), TyVar(3))>>))),
   \* the second parameter is variable 0 of the table
   Binders(<<"Ty">>, Implemented(Same, <<TyVar(0), TyVar(1)>>))}

\* The same values as canonical values: each binder with a universe.
CanonicalArgs ==
  UNION {{Binders(bs, arg.value) :
            bs \in {b \in [1..Len(arg.binders) -> [kind : {"Ty", "Lifetime", "Const"},
                                                   ui : Universes]] :
                      \A i \in 1..Len(arg.binders) : b[i].kind = arg.binders[i]}} :
         arg \in InstantiateArgs}

\* Values over the variables of a table, some under binders.
NormalizeValues ==
  ClauseGoals \cup
  {Quantified("ForAll", <<"Ty">>, Implemented(Same, <<TyVar(0), TyVar(1)>>)),
   Implemented(Clone, <<ForAllTy(1, Vec(TyVar(3)))>>),
   Quantified("ForAll", <<"Ty", "Lifetime">>, Implemented(Foo, <<TyVar(2), LifetimeVar(3)>>)),
   LifetimeEq(LifetimeVar(1), LifetimeForAll(1)),
   Implemented(Same, <<TyVar(2), TyVar(0)>>)}

InitInstantiate ==
  /\ op = "idle"
  /\ \E infer \in InstantiateInfers :
       table = infer.table /\ max_universe = infer.max_universe
  /\ value0 = None
  /\ universes = <<>>
  /\ todo = <<>>
  /\ adds = <<>>
  /\ ucanonicalized = None
  /\ args = None
  /\ locals = None
  /\ result = None
  /\ ex_clause = None

\* The free variables a value has beyond its binders are of the table.
InScope(binders, value) ==
  \A v \in FreeVars(value, Len(binders)) :
    v.depth < Len(table) /\ KindOf(v) = InitVarKinds[v.depth + 1]

\* infer.instantiate_canonical(bound)
InstantiateCanonical(bound) ==
  /\ op = "idle"
  /\ InScope(bound.binders, bound.value)
  /\ \E r \in {instantiate_canonical(UnifyState(table, max_universe), bound)} :
       /\ op' = "inst_done"
       /\ args' = [k |-> "instantiate_canonical",
                   infer |-> [table |-> table, max_universe |-> max_universe],
                   binders |-> bound.binders, value |-> bound.value]
       /\ locals' = r.vars
       /\ result' = r.value
       /\ table' = r.st.table
       /\ max_universe' = r.st.max_universe
  /\ UNCHANGED <<uvars, ex_clause>>

\* infer.instantiate_in(universe, binders, arg)
InstantiateIn(universe, binders, arg) ==
  /\ op = "idle"
  /\ InScope(binders, arg)
  /\ \E r \in {instantiate_in(UnifyState(table, max_universe), universe, binders, arg)} :
       /\ op' = "inst_done"
       /\ args' = [k |-> "instantiate_in",
                   infer |-> [table |-> table, max_universe |-> max_universe],
                   universe |-> universe, binders |-> binders, value |-> arg]
       /\ locals' = r.vars
       /\ result' = r.value
       /\ table' = r.st.table
       /\ max_universe' = r.st.max_universe
  /\ UNCHANGED <<uvars, ex_clause>>

\* infer.instantiate_binders_existentially(arg)
InstantiateBindersExistentially(arg) ==
  /\ op = "idle"
  /\ InScope(arg.binders, arg.value)
  /\ \E r \in {instantiate_binders_existentially(UnifyState(table, max_universe), arg)} :
       /\ op' = "inst_done"
       /\ args' = [k |-> "instantiate_binders_existentially",
                   infer |-> [table |-> table, max_universe |-> max_universe],
                   binders |-> arg.binders, value |-> arg.value]
       /\ locals' = r.vars
       /\ result' = r.value
       /\ table' = r.st.table
       /\ max_universe' = r.st.max_universe
  /\ UNCHANGED <<uvars, ex_clause>>

\* infer.instantiate_binders_universally(arg); a const binder ends in the
\* panic of unimplemented!().
InstantiateBindersUniversally(arg) ==
  /\ op = "idle"
  /\ InScope(arg.binders, arg.value)
  /\ \E r \in {instantiate_binders_universally(UnifyState(table, max_universe), arg)} :
       /\ op' = IF r.panic THEN "panic" ELSE "inst_done"
       /\ args' = [k |-> "instantiate_binders_universally",
                   infer |-> [table |-> table, max_universe |-> max_universe],
                   binders |-> arg.binders, value |-> arg.value]
       /\ locals' = r.parameters
       /\ result' = r.value
       /\ table' = r.st.table
       /\ max_universe' = r.st.max_universe
  /\ UNCHANGED <<uvars, ex_clause>>

\* infer.fresh_subst(&bound.binders).apply(&bound.value)
FreshSubst(bound) ==
  /\ op = "idle"
  /\ InScope(bound.binders, bound.value)
  /\ \E r \in {fresh_subst(UnifyState(table, max_universe), bound.binders)} :
       /\ op' = "inst_done"
       /\ args' = [k |-> "fresh_subst",
                   infer |-> [table |-> table, max_universe |-> max_universe],
                   binders |-> bound.binders, value |-> bound.value]
       /\ locals' = r.parameters
       /\ result' = SubstApply(r.parameters, bound.value)
       /\ table' = r.st.table
       /\ max_universe' = r.st.max_universe
  /\ UNCHANGED <<uvars, ex_clause>>

\* infer.normalize_deep(value)
NormalizeDeep(value) ==
  /\ op = "idle"
  /\ FitsTable(table, value)
  /\ op' = "inst_done"
  /\ args' = [k |-> "normalize_deep",
              infer |-> [table |-> table, max_universe |-> max_universe],
              value |-> value]
  /\ result' = normalize_deep(table, value)
  /\ UNCHANGED <<tvars, uvars, locals, ex_clause>>

\* infer.canonicalize(value), value the result of instantiate_canonical.
Canonicalize ==
  /\ op = "inst_done"
  /\ args.k = "instantiate_canonical"
  /\ op' = "canon_done"
  /\ value0' = canonicalize(table, result)
  /\ UNCHANGED <<tvars, rvars, universes, todo, adds, ucanonicalized>>

NextInstantiate ==
  \/ \E bound \in CanonicalArgs : InstantiateCanonical(bound)
  \/ \E universe \in Universes, arg \in InstantiateArgs :
       InstantiateIn(universe, arg.binders, arg.value)
  \/ \E arg \in InstantiateArgs : InstantiateBindersExistentially(arg)
  \/ \E arg \in InstantiateArgs : InstantiateBindersUniversally(arg)
  \/ \E bound \in CanonicalArgs : FreshSubst(bound)
  \/ \E value \in NormalizeValues : NormalizeDeep(value)
  \/ Canonicalize

SpecInstantiate == InitInstantiate /\ [][NextInstantiate]_vars

(***************************************************************************)
(* A UniverseMap on its own: new, then calls of add, and calls of the two  *)
(* mapping functions on the map as it stands.  args holds the last call,   *)
(* result what it returned.                                                *)
(***************************************************************************)
InitMap ==
  /\ op = "map"
  /\ table = <<>>
  /\ max_universe = 0
  /\ value0 = None
  /\ universes = UniverseMapNew
  /\ todo = <<>>
  /\ adds = <<>>
  /\ ucanonicalized = None
  /\ args = None
  /\ locals = None
  /\ result = 0
  /\ ex_clause = None

\* universes.add(universe)
MapAdd(universe) ==
  /\ op = "map"
  /\ Len(adds) < MaxAdds
  /\ universes' = UniverseMapAdd(universes, universe)
  /\ adds' = Append(adds, universe)
  /\ args' = [k |-> "add", universe |-> universe]
  /\ result' = 0
  /\ UNCHANGED <<op, tvars, value0, todo, ucanonicalized, locals, ex_clause>>

\* universes.map_universe_to_canonical(universe)
MapToCanonical(universe) ==
  /\ op = "map"
  /\ args' = [k |-> "to_canonical", universe |-> universe]
  /\ result' = map_universe_to_canonical(universes, universe)
  /\ UNCHANGED <<op, tvars, uvars, locals, ex_clause>>

\* universes.map_universe_from_canonical(universe)
MapFromCanonical(universe) ==
  /\ op = "map"
  /\ args' = [k |-> "from_canonical", universe |-> universe]
  /\ result' = map_universe_from_canonical(universes, universe)
  /\ UNCHANGED <<op, tvars, uvars, locals, ex_clause>>

\* universes.map_universe_from_canonical(c), c the canonical universe the
\* last call of map_universe_to_canonical returned.
MapBack ==
  /\ op = "map"
  /\ args.k = "to_canonical"
  /\ result >= 0
  /\ args' = [k |-> "back", original |-> args.universe, universe |-> result]
  /\ result' = map_universe_from_canonical(universes, result)
  /\ UNCHANGED <<op, tvars, uvars, locals, ex_clause>>

NextMap ==
  \/ \E universe \in Universes : MapAdd(universe)
  \/ \E universe \in 0..(MaxUniverse + 1) : MapToCanonical(universe)
  \/ \E universe \in 0..(MaxUniverse + 3) : MapFromCanonical(universe)
  \/ MapBack

SpecMap == InitMap /\ [][NextMap]_vars

(***************************************************************************)
(* Claims about the universe maps in both directions.                      *)
(***************************************************************************)

\* The canonical universe the claim gives for U: the index of U in the
\* vector, else the largest index whose universe is strictly less than U
\* (-1 if there is none).
ExpectedCanonical(v, u) ==
  IF \E i \in 1..Len(v) : v[i] = u
    THEN (CHOOSE i \in 1..Len(v) : v[i] = u) - 1
    ELSE Cardinality({i \in 1..Len(v) : v[i] < u}) - 1

\* C11: on every map built by new and add, map_universe_to_canonical is
\* defined for every universe and returns the index of the universe, or the
\* largest canonical universe whose original is strictly less; u_canonicalize
\* applies it to every skolem of the payload and to every binder universe.
C11_MapToCanonical ==
  /\ op \in {"u_collect", "u_done"} =>
       \A u \in 0..(MaxUniverse + 1) :
         /\ map_universe_to_canonical(universes, u) >= 0
         /\ map_universe_to_canonical(universes, u) = ExpectedCanonical(universes, u)
  /\ op = "u_done" =>
       /\ Len(ucanonicalized.quantified.canonical.binders) = Len(value0.binders)
       /\ \A i \in 1..Len(value0.binders) :
            /\ ucanonicalized.quantified.canonical.binders[i].kind = value0.binders[i].kind
            /\ ucanonicalized.quantified.canonical.binders[i].ui =
                 ExpectedCanonical(ucanonicalized.universes, value0.binders[i].ui)
       /\ Skolems(ucanonicalized.quantified.canonical.value) =
            [i \in 1..Len(Skolems(value0.value)) |->
               PK(Skolems(value0.value)[i].kind,
                  ExpectedCanonical(ucanonicalized.universes, Skolems(value0.value)[i].ui))]
       /\ ucanonicalized.quantified.universes = Len(ucanonicalized.universes)

\* C11 witness: binders [Ty@U2] over a payload with ForAll(U1) and ForAll(U3).
C11_Witness ==
  /\ op = "u_done"
  /\ value0 = Binders(<<PK("Ty", 2)>>, Implemented(2, <<TyVar(0), SkolemTy(1), SkolemTy(3)>>))
  /\ ucanonicalized.universes = <<0, 1, 3>>
  /\ ucanonicalized.quantified.canonical =
       Binders(<<PK("Ty", 1)>>, Implemented(2, <<TyVar(0), SkolemTy(1), SkolemTy(2)>>))
  /\ ucanonicalized.quantified.universes = 3

\* C12: for a universe held by the map, mapping it to its canonical universe
\* and that one back gives the universe again.
C12_RoundTrip ==
  (op = "map" /\ args.k = "back" /\ args.original \in SeqToSet(universes)) =>
    result = args.original

C12_Witness ==
  /\ op = "map"
  /\ args.k = "back"
  /\ universes = <<0, 1, 3>>
  /\ args.original = 3
  /\ args.universe = 2
  /\ result = 3

\* C13: map_universe_from_canonical is strictly increasing over all
\* canonical universes, in range or not; an out-of-range canonical universe c
\* goes to max + (c - len) + 1, above every universe of the map.
C13_FromCanonicalMonotone ==
  (op = "map" /\ args.k = "from_canonical") =>
    /\ \A b \in 0..(MaxUniverse + 4) :
         /\ args.universe < b => result < map_universe_from_canonical(universes, b)
         /\ b < args.universe => map_universe_from_canonical(universes, b) < result
    /\ args.universe >= Len(universes) =>
         /\ result = universes[Len(universes)] + (args.universe - Len(universes)) + 1
         /\ \A i \in 1..Len(universes) : universes[i] < result

C13_Witness ==
  /\ op = "map"
  /\ args.k = "from_canonical"
  /\ universes = <<0, 2>>
  /\ args.universe = 3
  /\ result = 4

\* The order-preserving renamings of the universes that fix U0, each as the
\* strictly increasing sequence of the images of U0, U1, ...
Renamings ==
  {v \in [1..(MaxUniverse + 1) -> 0..(MaxUniverse + 1)] :
     v[1] = 0 /\ StrictlyIncreasing(v)}

\* A canonical value with its payload skolems and binder universes renamed.
Renamed(v, c) ==
  Binders([i \in 1..Len(c.binders) |->
             PK(c.binders[i].kind, map_universe_from_canonical(v, c.binders[i].ui))],
          map_from_canonical(v, c.value))

\* C14: u_canonicalize gives the same quantified value (payload, binders,
\* number of universes) for an input and for the input with its universes
\* renamed by any order-preserving renaming that fixes U0.
C14_RenamingInvariant ==
  op = "u_done" =>
    \A v \in Renamings :
      u_canonicalize(Renamed(v, value0)).quantified = ucanonicalized.quantified

C14_Witness ==
  /\ op = "u_done"
  /\ value0 = Binders(<<PK("Ty", 1)>>, Implemented(1, <<TyVar(0), LifetimeForAll(2)>>))
  /\ Renamed(<<0, 2, 3, 4>>, value0)
       = Binders(<<PK("Ty", 2)>>, Implemented(1, <<TyVar(0), LifetimeForAll(3)>>))
  /\ ucanonicalized.quantified.canonical
       = Binders(<<PK("Ty", 0)>>, Implemented(1, <<TyVar(0), LifetimeForAll(1)>>))
  /\ u_canonicalize(Renamed(<<0, 2, 3, 4>>, value0)).quantified = ucanonicalized.quantified


(***************************************************************************)
(* Claims about instantiation, normalize_deep and canonicalize.            *)
(***************************************************************************)

\* A term with each free variable of depth d < Len(ps) replaced by ps[d + 1],
\* shifted into the binders around the occurrence, and each other free
\* variable lowered by Len(ps).
RECURSIVE Replace(_, _, _)
Replace(t, binders, ps) ==
  LET Each(s, b) == [i \in 1..Len(s) |-> Replace(s[i], b, ps)]
  IN CASE IsVar(t) ->
            IF t.depth < binders THEN t
            ELSE IF t.depth - binders < Len(ps)
              THEN up_shift(ps[t.depth - binders + 1], binders)
              ELSE VarOfKind(KindOf(t), t.depth - Len(ps))
       [] t.k = "Apply" -> Apply(t.name, Each(t.parameters, binders))
       [] t.k = "Projection" -> Projection(t.associated_ty_id, Each(t.parameters, binders))
       [] t.k = "ForAll" -> ForAllTy(t.num_binders, Replace(t.ty, binders + t.num_binders, ps))
       [] t.k = "Implemented" -> Implemented(t.trait_id, Each(t.parameters, binders))
       [] t.k = "Not" -> Not(Replace(t.goal, binders, ps))
       [] t.k = "Quantified" ->
            Quantified(t.kind, t.binders, Replace(t.value, binders + Len(t.binders), ps))
       [] t.k = "LifetimeEq" ->
            LifetimeEq(Replace(t.a, binders, ps), Replace(t.b, binders, ps))
       [] t.k = "Implication" ->
            ProgramClauseImplication(Replace(t.consequence, binders, ps),
                                     Each(t.conditions, binders))
       [] OTHER -> t

\* The kind of binder i of the call, and the universe the call designates
\* for its variable.
BinderKind(i) ==
  IF args.k = "instantiate_canonical" THEN args.binders[i].kind ELSE args.binders[i]

DesignatedUniverse(i) ==
  IF args.k = "instantiate_canonical" THEN args.binders[i].ui
  ELSE IF args.k = "instantiate_in" THEN args.universe
  ELSE args.infer.max_universe

\* C15: an existential instantiation adds to the table exactly one unbound
\* variable per binder, in binder order, of the binder's kind, in the
\* universe the operation designates (the binder's own for
\* instantiate_canonical, the given one for instantiate_in, the max_universe
\* at call time for instantiate_binders_existentially), and the result is
\* the payload with each bound index d replaced by the d-th new variable.
C15_ExistentialInstantiation ==
  (/\ op = "inst_done"
   /\ args.k \in {"instantiate_canonical", "instantiate_in",
                  "instantiate_binders_existentially"}) =>
    /\ Len(table) = Len(args.infer.table) + Len(args.binders)
    /\ SubSeq(table, 1, Len(args.infer.table)) = args.infer.table
    /\ Len(locals) = Len(args.binders)
    /\ \A i \in 1..Len(args.binders) :
         /\ table[Len(args.infer.table) + i] = [ui |-> DesignatedUniverse(i), value |-> None]
         /\ locals[i] = VarOfKind(BinderKind(i), Len(args.infer.table) + i - 1)
    /\ result = Replace(args.value, 0, locals)

C15_Witness ==
  /\ op = "inst_done"
  /\ args.k = "instantiate_binders_existentially"
  /\ args.infer = [table |-> Infer2.table, max_universe |-> 1]
  /\ args.binders = <<"Ty", "Lifetime">>
  /\ locals = <<TyVar(2), LifetimeVar(3)>>
  /\ table[3].ui = 1 /\ table[4].ui = 1
  /\ result = ProgramClauseImplication(Implemented(Foo, <<TyVar(2), LifetimeVar(3)>>),
                <<Quantified("ForAll", <<"Ty">>,
                             Implemented(Foo, <<TyVar(0), LifetimeVar(4)>>))>>)

\* The skolem of a binder kind in a universe.
SkolemOfKind(kind, ui) == IF kind = "Ty" THEN SkolemTy(ui) ELSE LifetimeForAll(ui)

\* C16: instantiate_binders_universally makes one new universe per binder, in
\* binder order, each above the max_universe before the call, above every
\* universe of the table and above the universe of the binder before it;
\* each bound type or lifetime variable becomes the skolem of its binder's
\* universe; max_universe ends as the last universe made, and the table's
\* variables are untouched.
C16_UniversalInstantiation ==
  (op = "inst_done" /\ args.k = "instantiate_binders_universally") =>
    /\ Len(locals) = Len(args.binders)
    /\ \A i \in 1..Len(args.binders) :
         /\ locals[i] = SkolemOfKind(args.binders[i], args.infer.max_universe + i)
         /\ \A j \in 1..Len(table) : table[j].ui < args.infer.max_universe + i
    /\ max_universe = args.infer.max_universe + Len(args.binders)
    /\ table = args.infer.table
    /\ result = Replace(args.value, 0, locals)

C16_Witness ==
  /\ op = "inst_done"
  /\ args.k = "instantiate_binders_universally"
  /\ args.infer.max_universe = 1
  /\ args.binders = <<"Lifetime">>
  /\ args.value = Implemented(Foo, <<U32, LifetimeVar(0)>>)
  /\ result = Implemented(Foo, <<U32, LifetimeForAll(2)>>)
  /\ max_universe = 2

\* Variable d of the table as normalize_deep must leave it: itself when it
\* is unbound, else its value with the same done to the variables of the
\* value.  Defined for tables without cycles.
RECURSIVE NormalForm(_, _)
NormalForm(tbl, d) ==
  IF tbl[d + 1].value = None THEN VarOfKind(InitVarKinds[d + 1], d)
  ELSE Replace(tbl[d + 1].value, 0,
               [e \in 1..Len(tbl) |->
                  IF e - 1 \in FreeDepths(tbl[d + 1].value, 0)
                    THEN NormalForm(tbl, e - 1)
                    ELSE VarOfKind(InitVarKinds[e], e - 1)])

\* C17: normalize_deep returns the value with each bound variable of the
\* table replaced by its fully normalized value, up-shifted by the binders
\* around the occurrence, and each unbound variable as it was; no variable
\* of the result is bound in the table.
C17_NormalizeDeep ==
  (op = "inst_done" /\ args.k = "normalize_deep") =>
    /\ result = Replace(args.value, 0, [d \in 1..Len(table) |-> NormalForm(table, d - 1)])
    /\ \A d \in FreeDepths(result, 0) : d < Len(table) /\ table[d + 1].value = None
    /\ \A d \in FreeDepths(args.value, 0) :
         table[d + 1].value = None => d \in FreeDepths(result, 0)

C17_Witness ==
  /\ op = "inst_done"
  /\ args.k = "normalize_deep"
  /\ table = Infer5.table
  /\ args.value = Quantified("ForAll", <<"Ty", "Lifetime">>,
                             Implemented(Foo, <<TyVar(2), LifetimeVar(3)>>))
  /\ result = Quantified("ForAll", <<"Ty", "Lifetime">>,
                         Implemented(Foo, <<Vec(U32), LifetimeVar(3)>>))

\* C18: fresh_subst(C.binders) applied to C.value gives what
\* instantiate_canonical(C) gives from the same table: the same new
\* variables (number, kinds, universes, order) in the table, the same
\* parameters and the same term.
C18_FreshSubstIsInstantiateCanonical ==
  (op = "inst_done" /\ args.k = "fresh_subst") =>
    \A r \in {instantiate_canonical(UnifyState(args.infer.table, args.infer.max_universe),
                                    Binders(args.binders, args.value))} :
      /\ locals = r.vars
      /\ table = r.st.table
      /\ max_universe = r.st.max_universe
      /\ result = r.value

C18_Witness ==
  /\ op = "inst_done"
  /\ args.k = "fresh_subst"
  /\ args.infer = [table |-> Infer1.table, max_universe |-> 0]
  /\ args.binders = <<PK("Ty", 2), PK("Lifetime", 1)>>
  /\ locals = <<TyVar(1), LifetimeVar(2)>>
  /\ table[2].ui = 2 /\ table[3].ui = 1
  /\ max_universe = 2
  /\ result = ProgramClauseImplication(Implemented(Foo, <<TyVar(1), LifetimeVar(2)>>),
                <<Quantified("ForAll", <<"Ty">>,
                             Implemented(Foo, <<TyVar(0), LifetimeVar(3)>>))>>)

\* The payload has no free variable beyond the binders.
Closed(binders, value) == \A d \in FreeDepths(value, 0) : d < Len(binders)

\* Every binder is used by the payload, and binder i is the i-th variable
\* the payload meets.
InFirstOccurrenceOrder(binders, value) ==
  FirstOccurrences(FreeVarsInOrder(value, 0), <<>>)
    = [i \in 1..Len(binders) |-> VarOfKind(binders[i].kind, i - 1)]

BoundPairAt(ev) ==
  /\ ev.e = "zip"
  /\ IsVar(ev.answer) /\ IsVar(ev.pending)
  /\ ev.answer.depth < ev.answer_binders
  /\ ev.pending.depth < ev.pending_binders

\* The two variables are the same binder, counted from the innermost.
SameBinder(ev) ==
  ev.answer.depth - ev.answer_binders = ev.pending.depth - ev.pending_binders

\* C20: a call of the zip on a bound answer variable Var(a) and a bound
\* pending variable Var(p) ends without a panic and without a call of unify
\* exactly when a - answer_binders = p - pending_binders, whatever the
\* build does on integer overflow.
C20_BoundVarsMatch ==
  op = "answer_done" =>
    \A i \in 1..Len(locals.log) :
      BoundPairAt(locals.log[i]) =>
        /\ SameBinder(locals.log[i]) <=> ~(result = "Panic" /\ i = Len(locals.log))
        /\ i < Len(locals.log) => locals.log[i + 1].e = "zip"

RECURSIVE Occurrences(_, _)
Occurrences(t, binders) ==
  LET Each(s, b) == Concat([i \in 1..Len(s) |-> Occurrences(s[i], b)])
  IN CASE IsVar(t) -> <<[kind |-> KindOf(t), depth |-> t.depth, binders |-> binders]>>
       [] t.k \in {"Apply", "Projection", "Implemented"} -> Each(t.parameters, binders)
       [] t.k = "ForAll" -> Occurrences(t.ty, binders + t.num_binders)
       [] t.k = "Not" -> Occurrences(t.goal, binders)
       [] t.k = "Quantified" -> Occurrences(t.value, binders + Len(t.binders))
       [] t.k = "LifetimeEq" -> Occurrences(t.a, binders) \o Occurrences(t.b, binders)
       [] t.k = "Implication" ->
            Occurrences(t.consequence, binders) \o Each(t.conditions, binders)
       [] OTHER -> <<>>

\* What the Instantiator must make of occurrence o, given the variables
\* vs: a variable of the same kind under the same binders, at this depth.
ExpectedDepth(o, vs) ==
  IF o.depth < o.binders THEN o.depth
  ELSE IF o.depth - o.binders < Len(vs)
    THEN vs[o.depth - o.binders + 1].depth + o.binders
    ELSE (o.depth - o.binders) + o.binders - Len(vs)

\* C22: in the result of an existential instantiation, occurrence by
\* occurrence: a variable bound inside the payload is untouched; a free one
\* of free depth below vars.len() is vars[depth] raised by the binders around
\* it; any other is Var(depth + binders - vars.len()), which is no less than
\* binders (no underflow, still free) and is a variable of the table of its
\* kind; the kind of every occurrence, type, lifetime or const, is kept.
C22_InstantiatorDepths ==
  (/\ op = "inst_done"
   /\ args.k \in {"instantiate_canonical", "instantiate_in",
                  "instantiate_binders_existentially"}) =>
    /\ Len(Occurrences(result, 0)) = Len(Occurrences(args.value, 0))
    /\ \A i \in 1..Len(Occurrences(args.value, 0)) :
         /\ Occurrences(result, 0)[i].kind = Occurrences(args.value, 0)[i].kind
         /\ Occurrences(result, 0)[i].binders = Occurrences(args.value, 0)[i].binders
         /\ Occurrences(result, 0)[i].depth = ExpectedDepth(Occurrences(args.value, 0)[i], locals)
         /\ Occurrences(args.value, 0)[i].depth >= Occurrences(args.value, 0)[i].binders =>
              /\ Occurrences(result, 0)[i].depth >= Occurrences(result, 0)[i].binders
              /\ Occurrences(result, 0)[i].depth - Occurrences(result, 0)[i].binders < Len(table)

C22_Witness ==
  /\ op = "inst_done"
  /\ args.k = "instantiate_in"
  /\ args.infer.table = Infer1.table
  /\ args.binders = <<"Ty", "Const">>
  /\ locals = <<TyVar(1), ConstVar(2)>>
  /\ args.value = Quantified("ForAll", <<"Ty">>,
                    Implemented(Foo, <<TyVar(1), Pair(Array(ConstVar(2)), TyVar(3))>>))
  /\ result = Quantified("ForAll", <<"Ty">>,
                Implemented(Foo, <<TyVar(2), Pair(Array(ConstVar(3)), TyVar(1))>>))


(***************************************************************************)
(* Claims about the result of u_canonicalize as a whole.                   *)
(***************************************************************************)

\* C23: in a u_canonicalize result, universes is the length of the returned
\* map; every skolem of the output payload and every binder is in a universe
\* below universes; the variables of the payload are those of the input, in
\* place; and each universe of 1..universes-1 is the universe of some skolem
\* of the output payload.
C23_DenseResult ==
  op = "u_done" =>
    \A sk \in {Skolems(ucanonicalized.quantified.canonical.value)} :
      /\ ucanonicalized.quantified.universes = Len(ucanonicalized.universes)
      /\ \A i \in 1..Len(sk) : sk[i].ui < ucanonicalized.quantified.universes
      /\ \A i \in 1..Len(ucanonicalized.quantified.canonical.binders) :
           ucanonicalized.quantified.canonical.binders[i].ui
             < ucanonicalized.quantified.universes
      /\ Occurrences(ucanonicalized.quantified.canonical.value, 0)
           = Occurrences(value0.value, 0)
      /\ \A c \in 1..(ucanonicalized.quantified.universes - 1) :
           \E i \in 1..Len(sk) : sk[i].ui = c

C23_Witness ==
  /\ op = "u_done"
  /\ value0 = [binders |-> <<PK("Ty", 2)>>,
               value |-> Implemented(2, <<TyVar(0), SkolemTy(3), LifetimeForAll(1)>>)]
  /\ ucanonicalized.universes = <<0, 1, 3>>
  /\ ucanonicalized.quantified =
       [universes |-> 3,
        canonical |->
          [binders |-> <<PK("Ty", 1)>>,
           value |-> Implemented(2, <<TyVar(0), SkolemTy(2), LifetimeForAll(1)>>)]]


(***************************************************************************)
(* Claims about the lookups of the answer substitution.                    *)
(***************************************************************************)

\* C24: with one parameter per binder of answer_table_goal, of the binder's
\* kind, no lookup answer_subst.parameters[answer_depth - answer_binders] is
\* out of bounds: the zip never panics on the index, at every free answer
\* variable the index is below the number of parameters, and the parameter
\* there, which is the one handed to unify, is of the kind of the position
\* being zipped.
C24_LookupInBounds ==
  op = "answer_done" =>
    /\ locals.panic # None => locals.panic.msg # "index out of bounds"
    /\ \A i \in 1..Len(locals.log) :
         FreeAnswerVarAt(locals.log[i]) =>
           /\ locals.log[i].answer.depth - locals.log[i].answer_binders
                < Len(locals.answer_subst)
           /\ KindOf(locals.answer_subst[locals.log[i].answer.depth
                                           - locals.log[i].answer_binders + 1])
                = locals.log[i].sort
           /\ (i < Len(locals.log) /\ locals.log[i + 1].e = "unify") =>
                KindOf(locals.log[i + 1].a) = locals.log[i].sort

C24_Witness ==
  /\ op = "answer_done"
  /\ Len(args.answer_table_goal.binders) = 2
  /\ Len(locals.answer_subst) = 2
  /\ \E i \in 1..(Len(locals.log) - 1) :
       /\ FreeAnswerVarAt(locals.log[i])
       /\ locals.log[i].sort = "Lifetime"
       /\ locals.log[i].answer = LifetimeVar(1)
       /\ locals.log[i].answer_binders = 0
       /\ locals.log[i + 1].e = "unify"
       /\ locals.log[i + 1].a = locals.answer_subst[2]
  /\ \E i \in 1..Len(locals.log) :
       /\ FreeAnswerVarAt(locals.log[i])
       /\ locals.log[i].sort = "Ty"
       /\ locals.log[i].answer = TyVar(0)


(***************************************************************************)
(* Claims about the table resolvent_clause leaves behind.                  *)
(***************************************************************************)

=============================================================================
